---- MODULE Spec2Model ----
(***************************************************************************)
(* The opening handshake of the websocket package.                         *)
(*                                                                         *)
(*   Spec        one call of the server's Upgrader.Upgrade (server.go),    *)
(*               from the first validation to the return of the call.      *)
(*   ClientSpec  one client handshake: ClientUpgrader.PrepareRequest, the  *)
(*               HTTP exchange, ClientUpgrader.UpgradeResponse.            *)
(*                                                                         *)
(* Text.  A header value the code inspects byte by byte (the               *)
(* Sec-Websocket-Protocol headers, the response headers copied into the    *)
(* 101 response) is a sequence of one-character strings.  A header the     *)
(* code hands to a token or extension parser is the sequence of its        *)
(* tokens, each a string.                                                  *)
(***************************************************************************)
EXTENDS Integers, Sequences, FiniteSets, TLC

\* The longest Upgrader.Subprotocols list that is tried.
MaxProtocols == 2
\* The longest payload handed to maskBytes.
MaxPayload == 3
\* The largest starting position handed to maskBytes.
MaxPos == 5
\* The number of times maskBytes is applied to one buffer.
MaxCalls == 2
\* The most calls of maskBytes made on the chunks of one buffer.
MaxChunks == 3
\* The capacity of a chat Client's send channel.
MaxSendBuffer == 1
\* The most messages sent on the Hub's broadcast channel.
MaxBroadcasts == 2
\* The most times one client is sent on the Hub's unregister channel.
MaxUnregisters == 2
\* The most text messages the peer sends before its Close frame.
MaxMessages == 2
\* The longest Sec-Websocket-Protocol header handed to Subprotocols alone.
MaxHeaderLen == 5
\* The number of frames a Conn reads from its peer.
MaxFrames == 3
\* The number of write calls the application makes on a Conn.
MaxWrites == 2

\* net/http status codes used by Upgrade.
StatusSwitchingProtocols == 101
StatusBadRequest == 400
StatusForbidden == 403
StatusMethodNotAllowed == 405
StatusInternalServerError == 500

VARIABLES
    u,              \* the Upgrader (its configuration fields)
    r,              \* appCtx.Request, as the handler received it
    hijacked,       \* appCtx.Hijacked()
    rspHeader,      \* appCtx.Response.Header: what the application set before Upgrade
    pc,             \* where the call of Upgrade stands
    challengeKey,   \* local of Upgrade
    subprotocol,    \* local of Upgrade
    compress,       \* local of Upgrade
    c,              \* the *Conn of newConn, NoConn before it is made
    p,              \* the response buffer
    netConn,        \* the raw connection: bytes written, closed, write deadline
    hijackStopCh,   \* the channel made at line 287
    handlerCalls,   \* how many times handler(c) was called
    handlerErr,     \* what handler(c) returned (err of line 288)
    httpReply,      \* what returnError made the host answer
    ret             \* the value Upgrade returned, once it has

upgradeVars ==
    <<u, r, hijacked, rspHeader, pc, challengeKey, subprotocol, compress, c, p,
      netConn, hijackStopCh, handlerCalls, handlerErr, httpReply, ret>>

VARIABLES
    cu,             \* the ClientUpgrader (its configuration fields)
    cReq,           \* the client's request: the headers PrepareRequest sets
    cResp,          \* the response the client received
    cPc,            \* where the client's handshake stands
    cHijacked,      \* whether resp.Hijack() was called
    cConn,          \* the *Conn UpgradeResponse returned, NoConn if none
    cErr            \* the error UpgradeResponse returned

clientVars == <<cu, cReq, cResp, cPc, cHijacked, cConn, cErr>>

VARIABLES
    mKey,           \* maskBytes: the key argument, four bytes
    mPos,           \* maskBytes: the pos argument
    mOrig,          \* the payload as it was before any call
    mBuf,           \* the slice b, which maskBytes changes in place
    mRet,           \* the value the last call returned
    mCalls,         \* the number of calls made on the buffer
    mDone           \* the number of bytes of the buffer the calls made chunk by
                    \* chunk have gone over

maskVars == <<mKey, mPos, mOrig, mBuf, mRet, mCalls, mDone>>

VARIABLES
    sHeader,        \* Subprotocols: the request's Sec-Websocket-Protocol header
    sResult,        \* the list Subprotocols returned, <<>> for nil
    sPc             \* "call" before Subprotocols has run, "done" after

subprotocolsVars == <<sHeader, sResult, sPc>>

VARIABLES
    wsConn,         \* a Conn after the handshake: who made it, its role, its
                    \* close state, its read and write errors, the message in progress
    wire,           \* the frames the Conn wrote to the underlying stream, in order
    streamClosed,   \* the underlying stream has been closed
    readCall,       \* the ReadMessage call in progress or just over: the last
                    \* frame it took, what the peer put into the data frames
                    \* and the Pings it took, the length of wire when it began
    readResult,     \* what the last ReadMessage call returned
    framesRead,     \* the number of frames read from the stream so far
    writeCalls,     \* the number of write calls made so far
    writeResult     \* what the last write call returned

connVars ==
    <<wsConn, wire, streamClosed, readCall, readResult, framesRead, writeCalls, writeResult>>

VARIABLES
    echo            \* ExampleClient's exchange after the handshake: the payload
                    \* the client wrote, the frames on their way to the server
                    \* and to the client, what the handler and the client read

echoVars == <<echo>>

VARIABLES
    hub,            \* the chat Hub: h.clients, where run stands, the clients the
                    \* range loop of a broadcast has yet to visit, a panic if any
    sendCh,         \* each Client's send channel: what it buffers, whether it
                    \* is closed, how many times close was called on it
    hubEvents       \* how many times each client was sent on h.register and on
                    \* h.unregister, and how many messages on h.broadcast

hubVars == <<hub, sendCh, hubEvents>>

VARIABLES
    jStream,        \* the frames the peer sent to a Conn that is read with ReadJSON
    jMessages,      \* the text messages the peer put into those frames
    jResults        \* what each ReadJSON call returned, and the number of frames
                    \* read from the stream when it returned

jsonVars == <<jStream, jMessages, jResults>>

vars ==
    <<upgradeVars, clientVars, maskVars, subprotocolsVars, connVars, echoVars, hubVars,
      jsonVars>>

\* The variables each part of the program leaves alone.
besidesUpgrade ==
    <<clientVars, maskVars, subprotocolsVars, connVars, echoVars, hubVars, jsonVars>>
besidesClient ==
    <<upgradeVars, maskVars, subprotocolsVars, connVars, echoVars, hubVars, jsonVars>>
besidesMask ==
    <<upgradeVars, clientVars, subprotocolsVars, connVars, echoVars, hubVars, jsonVars>>
besidesSubprotocols ==
    <<upgradeVars, clientVars, maskVars, connVars, echoVars, hubVars, jsonVars>>
besidesConn ==
    <<upgradeVars, clientVars, maskVars, subprotocolsVars, echoVars, hubVars, jsonVars>>
besidesHandshake ==
    <<maskVars, subprotocolsVars, connVars, hubVars, jsonVars>>
besidesHub ==
    <<upgradeVars, clientVars, maskVars, subprotocolsVars, connVars, echoVars, jsonVars>>
besidesJson ==
    <<upgradeVars, clientVars, maskVars, subprotocolsVars, echoVars, hubVars>>

(***************************************************************************)
(* Text helpers.                                                           *)
(***************************************************************************)

\* unicode.IsSpace on the bytes the model uses.
IsSpace(ch) == ch \in {" ", "\t", "\n", "\r", "\f"}

RECURSIVE TrimLeft(_)
TrimLeft(s) ==
    IF s # <<>> /\ IsSpace(Head(s)) THEN TrimLeft(Tail(s)) ELSE s

RECURSIVE TrimRight(_)
TrimRight(s) ==
    IF s # <<>> /\ IsSpace(s[Len(s)]) THEN TrimRight(SubSeq(s, 1, Len(s) - 1)) ELSE s

\* strings.TrimSpace
TrimSpace(s) == TrimRight(TrimLeft(s))

\* strings.Split(s, ","): the pieces between the commas, empty pieces included.
RECURSIVE SplitFrom(_, _)
SplitFrom(s, cur) ==
    IF s = <<>> THEN <<cur>>
    ELSE IF Head(s) = "," THEN <<cur>> \o SplitFrom(Tail(s), <<>>)
    ELSE SplitFrom(Tail(s), Append(cur, Head(s)))

Split(s) == SplitFrom(s, <<>>)

\* Header.Get on a response header: the first value under the key, "" if none.
RECURSIVE HeaderGet(_, _)
HeaderGet(h, k) ==
    IF h = <<>> THEN <<>>
    ELSE IF Head(h).k = k /\ Head(h).vals # <<>> THEN Head(h).vals[1]
    ELSE HeaderGet(Tail(h), k)

\* Header.Set on a response header: the key's entries replaced by one.
HeaderSet(h, k, v) ==
    SelectSeq(h, LAMBDA e : e.k # k) \o <<[k |-> k, vals |-> <<v>>]>>

\* ASCII lower case of the tokens the model uses.
ToLower(t) ==
    CASE t = "Upgrade" -> "upgrade"
      [] t = "UPGRADE" -> "upgrade"
      [] t = "WebSocket" -> "websocket"
      [] t = "EXAMPLE.com" -> "example.com"
      [] OTHER -> t

equalASCIIFold(s, t) == ToLower(s) = ToLower(t)

\* tokenListContainsValue: some token of the header equals value, case folded.
tokenListContainsValue(header, value) ==
    \E i \in DOMAIN header : equalASCIIFold(header[i], value)

\* The number of bytes a Sec-Websocket-Key decodes to, -1 if it is not base64.
Base64DecodedLen(k) ==
    CASE k = "dGhlIHNhbXBsZSBub25jZQ==" -> 16
      [] k = "eHl6enl4eXp6eXh5enp5eA==" -> 16
      [] k = "c2hvcnQ=" -> 5
      [] k = "" -> 0
      [] OTHER -> -1

isValidChallengeKey(k) == k # "" /\ Base64DecodedLen(k) = 16

\* base64(SHA-1(key ++ GUID)): a value that names the key it was computed from.
computeAcceptKey(k) == <<"accept", k>>

\* parseExtensions: one map per extension of the header, the name under "".
parseExtensions(header) ==
    [i \in DOMAIN header |->
        [q \in header[i].params \cup {""} |-> IF q = "" THEN header[i].name ELSE ""]]

\* url.Parse(origin) as checkSameOrigin uses it: whether it parses, and u.Host.
UrlParse(origin) ==
    CASE origin = "http://example.com" -> [ok |-> TRUE, Host |-> "example.com"]
      [] origin = "http://EXAMPLE.com" -> [ok |-> TRUE, Host |-> "EXAMPLE.com"]
      [] origin = "http://evil.example" -> [ok |-> TRUE, Host |-> "evil.example"]
      [] OTHER -> [ok |-> FALSE, Host |-> ""]

(***************************************************************************)
(* Values.                                                                 *)
(***************************************************************************)

NoErr == [type |-> "nil", message |-> ""]
HandshakeError(reason) == [type |-> "HandshakeError", message |-> reason]
NetErr(what) == [type |-> "net.Error", message |-> what]
HandlerErr == [type |-> "error", message |-> "handler failed"]
ErrDataBeforeHandshake ==
    [type |-> "error", message |-> "websocket: client sent data before handshake is complete"]

NilList == [isNil |-> TRUE, elems |-> <<>>]
List(s) == [isNil |-> FALSE, elems |-> s]

NoConn == [made |-> FALSE, isServer |-> FALSE, subprotocol |-> <<>>, compression |-> FALSE]

\* newConn(netConn, isServer, ...), then the fields Upgrade and UpgradeResponse set.
newConn(isServer) ==
    [made |-> TRUE, isServer |-> isServer, subprotocol |-> <<>>, compression |-> FALSE]

NoReply == [via |-> "none", status |-> 0, reason |-> NoErr]

HeaderLine(k, v) == [k |-> k, v |-> v]

(***************************************************************************)
(* The pure parts of server.go.                                            *)
(***************************************************************************)

\* Subprotocols with the pieces between the commas returned as they are.
Subprotocols_EntriesUntrimmed(req) ==
    LET h == TrimSpace(req.Protocol)
    IN  IF h = <<>> THEN <<>>
        ELSE Split(h)

\* Subprotocols(r): nil (the empty sequence) for an empty or blank header,
\* otherwise the comma separated entries, each trimmed.
Subprotocols(req) ==
    LET h == TrimSpace(req.Protocol)
    IN  IF h = <<>> THEN <<>>
        ELSE LET protocols == Split(h)
             IN  [i \in DOMAIN protocols |-> TrimSpace(protocols[i])]

\* The two loops with the client's entries outermost.
RECURSIVE FirstServerMatch_ClientOrder(_, _)
FirstServerMatch_ClientOrder(serverProtocols, clientProtocols) ==
    IF clientProtocols = <<>> THEN <<>>
    ELSE IF \E i \in DOMAIN serverProtocols : serverProtocols[i] = Head(clientProtocols)
         THEN Head(clientProtocols)
         ELSE FirstServerMatch_ClientOrder(serverProtocols, Tail(clientProtocols))

\* The two loops of selectSubprotocol: server entries outermost.
RECURSIVE FirstServerMatch(_, _)
FirstServerMatch(serverProtocols, clientProtocols) ==
    IF serverProtocols = <<>> THEN <<>>
    ELSE IF \E j \in DOMAIN clientProtocols : clientProtocols[j] = Head(serverProtocols)
         THEN Head(serverProtocols)
         ELSE FirstServerMatch(Tail(serverProtocols), clientProtocols)

selectSubprotocol(up, req, responseHeader) ==
    IF ~up.Subprotocols.isNil
    THEN FirstServerMatch(up.Subprotocols.elems, Subprotocols(req))
    ELSE IF HeaderGet(responseHeader, "Sec-Websocket-Protocol") # <<>>
         THEN HeaderGet(responseHeader, "Sec-Websocket-Protocol")
         ELSE <<>>

\* checkSameOrigin comparing the two hosts byte for byte.
checkSameOrigin_ExactHost(req) ==
    IF req.Origin = "" THEN TRUE
    ELSE LET parsed == UrlParse(req.Origin)
         IN  IF ~parsed.ok THEN FALSE
             ELSE parsed.Host = req.Host

checkSameOrigin(req) ==
    IF req.Origin = "" THEN TRUE
    ELSE LET parsed == UrlParse(req.Origin)
         IN  IF ~parsed.ok THEN FALSE
             ELSE equalASCIIFold(parsed.Host, req.Host)

\* The origin policy never consulted.
checkOrigin_Unchecked(up, req) == TRUE

\* u.CheckOrigin, checkSameOrigin when it is nil.
checkOrigin(up, req) ==
    IF up.CheckOrigin = "nil" THEN checkSameOrigin(req)
    ELSE up.CheckOrigin = "allowAll"

Reject(status, reason) == [ok |-> FALSE, status |-> status, reason |-> reason]
Accepted == [ok |-> TRUE, status |-> 0, reason |-> ""]

\* The validations with the method checked before the headers.
UpgradeValidate_MethodFirst(up, req, hij, responseHeader) ==
    IF hij
    THEN Reject(StatusInternalServerError, "connection mustn't be hijacked")
    ELSE IF req.Method # "GET"
    THEN Reject(StatusMethodNotAllowed, "request method is not GET")
    ELSE IF ~tokenListContainsValue(req.Connection, "upgrade")
    THEN Reject(StatusBadRequest, "'upgrade' token not found in 'Connection' header")
    ELSE IF ~tokenListContainsValue(req.Upgrade, "websocket")
    THEN Reject(StatusBadRequest, "'websocket' token not found in 'Upgrade' header")
    ELSE IF ~tokenListContainsValue(req.Version, "13")
    THEN Reject(StatusBadRequest, "13 not found in 'Sec-Websocket-Version' header")
    ELSE IF HeaderGet(responseHeader, "Sec-Websocket-Extensions") # <<>>
    THEN Reject(StatusInternalServerError,
                "application specific 'Sec-WebSocket-Extensions' headers are unsupported")
    ELSE IF ~checkOrigin(up, req)
    THEN Reject(StatusForbidden, "request origin not allowed by Upgrader.CheckOrigin")
    ELSE IF ~isValidChallengeKey(req.Key)
    THEN Reject(StatusBadRequest,
                "'Sec-WebSocket-Key' header must be Base64 encoded value of 16-byte in length")
    ELSE Accepted

\* The validations of Upgrade, in the order the code makes them.
UpgradeValidate(up, req, hij, responseHeader) ==
    IF hij
    THEN Reject(StatusInternalServerError, "connection mustn't be hijacked")
    ELSE IF ~tokenListContainsValue(req.Connection, "upgrade")
    THEN Reject(StatusBadRequest, "'upgrade' token not found in 'Connection' header")
    ELSE IF ~tokenListContainsValue(req.Upgrade, "websocket")
    THEN Reject(StatusBadRequest, "'websocket' token not found in 'Upgrade' header")
    ELSE IF req.Method # "GET"
    THEN Reject(StatusMethodNotAllowed, "request method is not GET")
    ELSE IF ~tokenListContainsValue(req.Version, "13")
    THEN Reject(StatusBadRequest, "13 not found in 'Sec-Websocket-Version' header")
    ELSE IF HeaderGet(responseHeader, "Sec-Websocket-Extensions") # <<>>
    THEN Reject(StatusInternalServerError,
                "application specific 'Sec-WebSocket-Extensions' headers are unsupported")
    ELSE IF ~checkOrigin(up, req)
    THEN Reject(StatusForbidden, "request origin not allowed by Upgrader.CheckOrigin")
    ELSE IF ~isValidChallengeKey(req.Key)
    THEN Reject(StatusBadRequest,
                "'Sec-WebSocket-Key' header must be Base64 encoded value of 16-byte in length")
    ELSE Accepted

\* The negotiation without the test of u.EnableCompression.
negotiateCompression_EnableIgnored(up, req) ==
    \E i \in DOMAIN parseExtensions(req.Extensions) :
        parseExtensions(req.Extensions)[i][""] = "permessage-deflate"

\* The negotiation matching only offers that name both no_context_takeover
\* parameters.
negotiateCompression_NoTakeoverOnly(up, req) ==
    /\ up.EnableCompression
    /\ \E i \in DOMAIN parseExtensions(req.Extensions) :
           /\ parseExtensions(req.Extensions)[i][""] = "permessage-deflate"
           /\ {"server_no_context_takeover", "client_no_context_takeover"}
                  \subseteq DOMAIN parseExtensions(req.Extensions)[i]

\* "Negotiate PMCE": the loop over the offered extensions.
negotiateCompression(up, req) ==
    /\ up.EnableCompression
    /\ \E i \in DOMAIN parseExtensions(req.Extensions) :
           parseExtensions(req.Extensions)[i][""] = "permessage-deflate"

\* A byte of 31 or below, among the bytes the model uses.
IsControl(ch) == ch \in {"\t", "\n", "\r", "\f"}

\* The inner loop of the header copy: a control byte becomes a space.
SanitizeValue(v) == [i \in DOMAIN v |-> IF IsControl(v[i]) THEN " " ELSE v[i]]

\* The header copy with no key left out.
RECURSIVE CopyHeaders_ProtocolCopied(_)
CopyHeaders_ProtocolCopied(h) ==
    IF h = <<>> THEN <<>>
    ELSE LET kv == Head(h)
         IN  [i \in DOMAIN kv.vals |-> HeaderLine(kv.k, SanitizeValue(kv.vals[i]))]
             \o CopyHeaders_ProtocolCopied(Tail(h))

\* The header copy: every value of every response header but Sec-Websocket-Protocol.
RECURSIVE CopyHeaders(_)
CopyHeaders(h) ==
    IF h = <<>> THEN <<>>
    ELSE LET kv == Head(h)
         IN  (IF kv.k = "Sec-Websocket-Protocol" THEN <<>>
              ELSE [i \in DOMAIN kv.vals |-> HeaderLine(kv.k, SanitizeValue(kv.vals[i]))])
             \o CopyHeaders(Tail(h))

StatusLine == HeaderLine("HTTP/1.1", <<"101", " ", "Switching Protocols">>)
ExtensionsLine ==
    HeaderLine("Sec-WebSocket-Extensions",
               <<"permessage-deflate; server_no_context_takeover; client_no_context_takeover">>)
EndOfHeaders == HeaderLine("", <<>>)

\* The bytes appended to p, line by line.
BuildResponse(key, conn, compressed, responseHeader) ==
    <<StatusLine,
      HeaderLine("Upgrade", <<"websocket">>),
      HeaderLine("Connection", <<"Upgrade">>),
      HeaderLine("Sec-WebSocket-Accept", computeAcceptKey(key))>>
    \o (IF conn.subprotocol # <<>>
        THEN <<HeaderLine("Sec-WebSocket-Protocol", conn.subprotocol)>> ELSE <<>>)
    \o (IF compressed THEN <<ExtensionsLine>> ELSE <<>>)
    \o CopyHeaders(responseHeader)
    \o <<EndOfHeaders>>

(***************************************************************************)
(* The requests and configurations that are tried.                         *)
(***************************************************************************)

SampleKey == "dGhlIHNhbXBsZSBub25jZQ=="
ServerHost == "example.com"

ProtocolNames == {<<"a">>, <<"b">>}

RECURSIVE SeqsUpTo(_, _)
SeqsUpTo(S, n) ==
    IF n = 0 THEN {<<>>}
    ELSE LET shorter == SeqsUpTo(S, n - 1)
         IN  shorter \cup {Append(s, x) : s \in {t \in shorter : Len(t) = n - 1}, x \in S}

\* Upgrader.Subprotocols: nil, or a list in the server's order of preference.
ServerProtocolLists == {NilList} \cup {List(s) : s \in SeqsUpTo(ProtocolNames, MaxProtocols)}

\* Sec-Websocket-Protocol request headers: "", "a", "a, b", " b ,a", "c", " ".
ProtocolHeaders ==
    { <<>>, <<"a">>, <<"a", ",", " ", "b">>, <<" ", "b", " ", ",", "a">>, <<"c">>, <<" ">> }

PermessageDeflate(params) == [name |-> "permessage-deflate", params |-> params]
NoTakeover == {"server_no_context_takeover", "client_no_context_takeover"}

\* Sec-Websocket-Extensions request headers.
ExtensionHeaders ==
    { <<>>,
      <<PermessageDeflate(NoTakeover)>>,
      <<PermessageDeflate({})>>,
      <<[name |-> "x-webkit-deflate-frame", params |-> {}]>>,
      <<[name |-> "x-webkit-deflate-frame", params |-> {}], PermessageDeflate({})>> }

\* The response headers the application may have set before it calls Upgrade.
PresetExtensions == <<[k |-> "Sec-Websocket-Extensions", vals |-> << <<"x">> >>]>>
PresetProtocol == <<[k |-> "Sec-Websocket-Protocol", vals |-> << <<"c">> >>]>>
PresetProtocols == <<[k |-> "Sec-Websocket-Protocol", vals |-> << <<"c">>, <<"a">> >>]>>
PresetProtocolBreak ==
    <<[k |-> "Sec-Websocket-Protocol", vals |-> << <<"c", "\r", "\n", "x">> >>]>>
PresetCookie == <<[k |-> "Set-Cookie", vals |-> << <<"i", "d", "\r", "\n", "x">> >>]>>

Request(method, connection, upgrade, version, key, origin, protocol, extensions, body) ==
    [Method |-> method, Connection |-> connection, Upgrade |-> upgrade,
     Version |-> version, Key |-> key, Origin |-> origin, Host |-> ServerHost,
     Protocol |-> protocol, Extensions |-> extensions, BodyLen |-> body]

UpgraderOf(subprotocols, checkOriginFn, enableCompression, handshakeTimeout, errorFn) ==
    [Subprotocols |-> subprotocols, CheckOrigin |-> checkOriginFn,
     EnableCompression |-> enableCompression, HandshakeTimeout |-> handshakeTimeout,
     Error |-> errorFn]

\* Every combination of the fields the validations read, with and without a
\* body; the other fields read only after the validations are left at their
\* zero values.
ValidationInputs ==
    { [u |-> UpgraderOf(NilList, co, FALSE, 0, ef),
       r |-> Request(m, cn, up, ve, k, o, <<>>, <<>>, bl),
       hijacked |-> hj,
       rspHeader |-> ext] :
        co \in {"nil", "allowAll", "denyAll"},
        ef \in {"nil", "custom"},
        m \in {"GET", "POST"},
        cn \in {<<"keep-alive", "Upgrade">>, <<"keep-alive">>},
        up \in {<<"WebSocket">>, <<"h2c">>},
        ve \in {<<"13">>, <<"8">>},
        k \in {SampleKey, "c2hvcnQ=", ""},
        o \in {"", "http://EXAMPLE.com", "http://evil.example", "%zz"},
        hj \in BOOLEAN,
        ext \in {<<>>, PresetExtensions},
        bl \in {0, 1} }

\* A well-formed upgrade request, with every combination of what the
\* negotiation, the body check and the write of the response read.
NegotiationInputs ==
    { [u |-> UpgraderOf(sp, "nil", ec, ht, "nil"),
       r |-> Request("GET", <<"Upgrade">>, <<"websocket">>, <<"13">>, SampleKey, "",
                     ph, eh, bl),
       hijacked |-> FALSE,
       rspHeader |-> pp \o ck] :
        sp \in ServerProtocolLists,
        ec \in BOOLEAN,
        ht \in {0, 1},
        ph \in ProtocolHeaders,
        eh \in ExtensionHeaders,
        bl \in {0, 1},
        pp \in {<<>>, PresetProtocol, PresetProtocols, PresetProtocolBreak},
        ck \in {<<>>, PresetCookie} }

UpgradeInputs == ValidationInputs \cup NegotiationInputs

\* What a call on the raw connection may return.
NetOutcomes == {NoErr, NetErr("use of closed network connection")}

\* What handler(c) may return.
HandlerOutcomes == {NoErr, HandlerErr}

FreshNetConn ==
    [written |-> <<>>, closed |-> FALSE, writeErr |-> NoErr,
     writeDeadline |-> "http", readTimeout |-> "http"]

(***************************************************************************)
(* The client's values.                                                    *)
(***************************************************************************)

ErrBadHandshake == [type |-> "error", message |-> "websocket: bad handshake"]
ErrHijack == [type |-> "error", message |-> "Hijack response connection err"]

NoRequestHeaders ==
    [Upgrade |-> <<>>, Connection |-> <<>>, Version |-> <<>>, Key |-> "", Extensions |-> <<>>]

NoResponse ==
    [StatusCode |-> 0, Upgrade |-> <<>>, Connection |-> <<>>, Accept |-> <<>>,
     Extensions |-> <<>>]

\* generateChallengeKey(): the base64 text of 16 random bytes.
GeneratedKeys == {"dGhlIHNhbXBsZSBub25jZQ==", "eHl6enl4eXp6eXh5enp5eA=="}

\* The responses a server may give the client.
Responses ==
    { [StatusCode |-> st, Upgrade |-> up, Connection |-> cn, Accept |-> ac, Extensions |-> ex] :
        st \in {101, 200, 400},
        up \in {<<"websocket">>, <<"h2c">>},
        cn \in {<<"Upgrade">>, <<"keep-alive">>},
        ac \in {computeAcceptKey(k) : k \in GeneratedKeys} \cup {<<>>},
        ex \in {<<>>, <<PermessageDeflate(NoTakeover)>>,
                 <<[name |-> "x-webkit-deflate-frame", params |-> {}]>>} }

\* tokenContainsValue: some token of the header value equals value, case folded.
tokenContainsValue(header, value) ==
    \E i \in DOMAIN header : equalASCIIFold(header[i], value)

\* computeAcceptKeyBytes: computeAcceptKey on the bytes of the key.
computeAcceptKeyBytes(k) == computeAcceptKey(k)

\* parseDataHeader and bytes.HasPrefix(ext, strPermessageDeflate): whether an
\* extension of the response header begins with permessage-deflate.
responseHasDeflate(header) ==
    \E i \in DOMAIN header : header[i].name = "permessage-deflate"

(***************************************************************************)
(* maskBytes.                                                              *)
(***************************************************************************)

\* a ^ b on non-negative integers, bit by bit.
RECURSIVE Xor(_, _)
Xor(a, b) ==
    IF a = 0 /\ b = 0 THEN 0
    ELSE (((a % 2) + (b % 2)) % 2) + 2 * Xor(a \div 2, b \div 2)

\* a & b on non-negative integers, bit by bit.
RECURSIVE And(_, _)
And(a, b) ==
    IF a = 0 \/ b = 0 THEN 0
    ELSE ((a % 2) * (b % 2)) + 2 * And(a \div 2, b \div 2)

\* key[n] of a [4]byte, which Go indexes from 0.
KeyByte(key, n) == key[n + 1]

\* The loop indexing the key by the byte's own index, the start ignored.
RECURSIVE maskLoop_FromZero(_, _, _, _)
maskLoop_FromZero(key, pos, b, i) ==
    IF i > Len(b) THEN [b |-> b, pos |-> pos]
    ELSE maskLoop_FromZero(key, pos + 1,
                           [b EXCEPT ![i] = Xor(b[i], KeyByte(key, And(i - 1, 3)))], i + 1)

\* for i := range b { b[i] ^= key[pos&3]; pos++ }, from the i-th byte on.
RECURSIVE maskLoop(_, _, _, _)
maskLoop(key, pos, b, i) ==
    IF i > Len(b) THEN [b |-> b, pos |-> pos]
    ELSE maskLoop(key, pos + 1,
                  [b EXCEPT ![i] = Xor(b[i], KeyByte(key, And(pos, 3)))], i + 1)

\* maskBytes(key, pos, b): the buffer after the loop and the returned pos & 3.
maskBytes(key, pos, b) ==
    LET after == maskLoop(key, pos, b, 1)
    IN  [b |-> after.b, ret |-> And(after.pos, 3)]

\* The byte values, keys and payloads maskBytes is applied to.
Bytes == {0, 1, 170, 255}
MaskKeys == {<<0, 0, 0, 0>>, <<1, 2, 3, 4>>, <<255, 170, 85, 16>>}
Payloads == UNION {[1..n -> Bytes] : n \in 0..MaxPayload}

\* A buffer no call has been made on yet.
MaskCalled(key, pos, b) ==
    /\ mKey = key
    /\ mPos = pos
    /\ mOrig = b
    /\ mBuf = b
    /\ mRet = 0
    /\ mCalls = 0
    /\ mDone = 0

MaskAtRest == MaskCalled(<<0, 0, 0, 0>>, 0, <<>>)

(***************************************************************************)
(* The Conn: frames, errors and the state a Conn starts in.                *)
(***************************************************************************)

\* The error of a write made after a Close frame was sent.
ErrCloseSent == [type |-> "error", message |-> "websocket: close sent"]

\* The terminal error of a Conn whose peer sent a Close frame.
CloseError(code, text) == [type |-> "CloseError", code |-> code, text |-> text]

\* The error of a frame that breaks the protocol, with its close code.
ProtocolError(code) == [type |-> "ProtocolError", code |-> code]

\* One frame on the stream: the payload is the bytes as sent, masked or not.
Frame(opcode, fin, masked, key, payload) ==
    [opcode |-> opcode, fin |-> fin, masked |-> masked, key |-> key, payload |-> payload]

\* The payload of a Close frame: the code in two bytes, big-endian, then the reason.
ClosePayload(code, text) == <<code \div 256, code % 256>> \o text

\* The payload of a frame with the mask taken off.
Unmasked(f) == IF f.masked THEN maskBytes(f.key, 0, f.payload).b ELSE f.payload

\* A Conn as newConn leaves it: open, no error, no message in progress.
connOf(madeBy, made) ==
    [madeBy |-> madeBy, isServer |-> made.isServer, state |-> "open",
     readErr |-> NoErr, writeErr |-> NoErr, inProgress |-> FALSE,
     messageType |-> "none", partial |-> <<>>]

NoMessage == [err |-> NoErr, messageType |-> "none", payload |-> <<>>]
NoFrame == Frame("none", FALSE, FALSE, <<>>, <<>>)
NoReadCall ==
    [active |-> FALSE, frames |-> 0, last |-> NoFrame, data |-> <<>>, pings |-> <<>>,
     wireMark |-> 0]
NoWrite == [op |-> "none", err |-> NoErr]

\* The state of a Conn just made.
ConnMade(cn) ==
    /\ wsConn = cn
    /\ wire = <<>>
    /\ streamClosed = FALSE
    /\ readCall = NoReadCall
    /\ readResult = NoMessage
    /\ framesRead = 0
    /\ writeCalls = 0
    /\ writeResult = NoWrite

ConnAtRest == ConnMade(connOf("none", NoConn))

\* Nothing written or read yet after the handshake.
EchoAtRest ==
    echo = [sent |-> <<>>, toServer |-> <<>>, serverRead |-> NoMessage,
            toClient |-> <<>>, clientRead |-> NoMessage]

\* The clients of the chat, and the Hub of newHub() with their channels open
\* and empty.
Clients == {"c1", "c2", "c3"}
NoPanic == "none"
newHub == [clients |-> {}, pc |-> "select", todo |-> {}, panic |-> NoPanic]
NewChan == [buf |-> <<>>, closed |-> FALSE, closes |-> 0, closedBy |-> "none"]

HubAtRest ==
    /\ hub = newHub
    /\ sendCh = [cl \in Clients |-> NewChan]
    /\ hubEvents = [register |-> [cl \in Clients |-> 0],
                    unregister |-> [cl \in Clients |-> 0],
                    broadcast |-> 0]

\* No stream is being read with ReadJSON.
JsonAtRest ==
    /\ jStream = <<>>
    /\ jMessages = <<>>
    /\ jResults = <<>>

\* Subprotocols about to be called on a request with this header.
SubprotocolsCalled(h) ==
    /\ sHeader = h
    /\ sResult = <<>>
    /\ sPc = "call"

SubprotocolsAtRest == SubprotocolsCalled(<<>>)

\* The characters and the header texts of the requests given to Subprotocols.
HeaderChars == {"a", "b", ",", " "}
HeaderTexts == UNION {[1..n -> HeaderChars] : n \in 0..MaxHeaderLen}

(***************************************************************************)
(* Upgrader.Upgrade, step by step.                                         *)
(***************************************************************************)

\* The state in which Upgrade is called with the inputs in.
UpgradeCalled(in) ==
    /\ u = in.u
    /\ r = in.r
    /\ hijacked = in.hijacked
    /\ rspHeader = in.rspHeader
    /\ pc = "validate"
    /\ challengeKey = ""
    /\ subprotocol = <<>>
    /\ compress = FALSE
    /\ c = NoConn
    /\ p = <<>>
    /\ netConn = FreshNetConn
    /\ hijackStopCh = "none"
    /\ handlerCalls = 0
    /\ handlerErr = NoErr
    /\ httpReply = NoReply
    /\ ret = [done |-> FALSE, err |-> NoErr]

\* A client that has not begun a handshake.
ClientNew(config) ==
    /\ cu = config
    /\ cReq = NoRequestHeaders
    /\ cResp = NoResponse
    /\ cPc = "new"
    /\ cHijacked = FALSE
    /\ cConn = NoConn
    /\ cErr = NoErr

Init ==
    /\ \E in \in UpgradeInputs : UpgradeCalled(in)
    /\ ClientNew([EnableCompression |-> FALSE])
    /\ MaskAtRest
    /\ SubprotocolsAtRest
    /\ ConnAtRest
    /\ EchoAtRest
    /\ HubAtRest
    /\ JsonAtRest

\* return err
Return(err) ==
    /\ pc' = "returned"
    /\ ret' = [done |-> TRUE, err |-> err]

\* returnError with the status of a bad request whatever the caller passed.
returnError_AlwaysBadRequest(up, responseHeader, status, reason) ==
    IF up.Error # "nil"
    THEN [reply |-> [via |-> "Upgrader.Error", status |-> StatusBadRequest,
                     reason |-> HandshakeError(reason)],
          header |-> responseHeader]
    ELSE [reply |-> [via |-> "AbortWithMsg", status |-> StatusBadRequest,
                     reason |-> HandshakeError(reason)],
          header |-> HeaderSet(responseHeader, "Sec-Websocket-Version", <<"1", "3">>)]

\* u.returnError(ctx, status, reason): what it does to the context.
returnError(up, responseHeader, status, reason) ==
    IF up.Error # "nil"
    THEN [reply |-> [via |-> "Upgrader.Error", status |-> status,
                     reason |-> HandshakeError(reason)],
          header |-> responseHeader]
    ELSE [reply |-> [via |-> "AbortWithMsg", status |-> status,
                     reason |-> HandshakeError(reason)],
          header |-> HeaderSet(responseHeader, "Sec-Websocket-Version", <<"1", "3">>)]

\* Lines 136-173: the validations; the first that fails returns its error.
Validate ==
    /\ pc = "validate"
    /\ LET v == UpgradeValidate(u, r, hijacked, rspHeader)
       IN  IF v.ok
           THEN /\ pc' = "negotiate"
                /\ challengeKey' = r.Key
                /\ UNCHANGED <<ret, httpReply, rspHeader>>
           ELSE LET e == returnError(u, rspHeader, v.status, v.reason)
                IN  /\ httpReply' = e.reply
                    /\ rspHeader' = e.header
                    /\ Return(HandshakeError(v.reason))
                    /\ UNCHANGED challengeKey
    /\ UNCHANGED <<u, r, hijacked, subprotocol, compress, c, p, netConn,
                   hijackStopCh, handlerCalls, handlerErr>>
    /\ UNCHANGED besidesUpgrade

\* Lines 175-187: the subprotocol and the compression.
Negotiate ==
    /\ pc = "negotiate"
    /\ subprotocol' = selectSubprotocol(u, r, rspHeader)
    /\ compress' = negotiateCompression(u, r)
    /\ pc' = "body"
    /\ UNCHANGED <<u, r, hijacked, rspHeader, challengeKey, c, p, netConn,
                   hijackStopCh, handlerCalls, handlerErr, httpReply, ret>>
    /\ UNCHANGED besidesUpgrade

\* The body never looked at.
hasBody_Never(req) == FALSE

\* Line 193: len(r.Body()) > 0.
hasBody(req) == req.BodyLen > 0

\* Lines 189-198: a request that carries a body is refused and the connection closed.
CheckBody ==
    /\ pc = "body"
    /\ IF hasBody(r)
       THEN \E closeErr \in NetOutcomes :
                /\ netConn' = [netConn EXCEPT !.closed = TRUE]
                /\ Return(IF closeErr # NoErr THEN closeErr ELSE ErrDataBeforeHandshake)
       ELSE /\ pc' = "respond"
            /\ UNCHANGED <<netConn, ret>>
    /\ UNCHANGED <<u, r, hijacked, rspHeader, challengeKey, subprotocol, compress, c, p,
                   hijackStopCh, handlerCalls, handlerErr, httpReply>>
    /\ UNCHANGED besidesUpgrade

\* Lines 213-219: the Conn.
MakeConn(sub, compressed) ==
    [newConn(TRUE) EXCEPT !.subprotocol = sub, !.compression = compressed]

\* Lines 199-260: the Conn is made and the response assembled in p.
Respond ==
    /\ pc = "respond"
    /\ c' = MakeConn(subprotocol, compress)
    /\ p' = BuildResponse(challengeKey, c', compress, rspHeader)
    /\ pc' = "deadline"
    /\ UNCHANGED <<u, r, hijacked, rspHeader, challengeKey, subprotocol, compress,
                   netConn, hijackStopCh, handlerCalls, handlerErr, httpReply, ret>>
    /\ UNCHANGED besidesUpgrade

\* Lines 262-270: the server's deadlines are cleared, the handshake's is set.
SetHandshakeDeadline ==
    /\ pc = "deadline"
    /\ IF u.HandshakeTimeout > 0
       THEN \E err \in NetOutcomes :
                IF err # NoErr
                THEN /\ netConn' = [netConn EXCEPT !.writeDeadline = "none",
                                                   !.readTimeout = "none"]
                     /\ Return(err)
                ELSE /\ netConn' = [netConn EXCEPT !.writeDeadline = "handshake",
                                                   !.readTimeout = "none"]
                     /\ pc' = "write"
                     /\ UNCHANGED ret
       ELSE /\ netConn' = [netConn EXCEPT !.writeDeadline = "none", !.readTimeout = "none"]
            /\ pc' = "write"
            /\ UNCHANGED ret
    /\ UNCHANGED <<u, r, hijacked, rspHeader, challengeKey, subprotocol, compress, c, p,
                   hijackStopCh, handlerCalls, handlerErr, httpReply>>
    /\ UNCHANGED besidesUpgrade

\* What netConn.Write(p) may do: write all of p, or fail after a part of it
\* (with a timeout only when a handshake deadline is set).
WriteOutcomes(up, buf) ==
    {[n |-> Len(buf), err |-> NoErr]}
    \cup {[n |-> n, err |-> NetErr("write: broken pipe")] : n \in 0 .. Len(buf) - 1}
    \cup (IF up.HandshakeTimeout > 0
          THEN {[n |-> n, err |-> NetErr("i/o timeout")] : n \in 0 .. Len(buf) - 1}
          ELSE {})

\* Lines 271-276, the failure branch: err is assigned the result of Close and
\* that is what both returns give back.
closeAfterFailedWrite(writeErr, closeErr) == closeErr

\* The result of Write left unchecked.
writeFailed_Unchecked(w) == FALSE

\* Line 271: err != nil.
writeFailed(w) == w.err # NoErr

\* Lines 271-276: the write of the response.
WriteResponse ==
    /\ pc = "write"
    /\ \E w \in WriteOutcomes(u, p) :
           IF writeFailed(w)
           THEN \E closeErr \in NetOutcomes :
                    /\ netConn' = [netConn EXCEPT !.written = SubSeq(p, 1, w.n),
                                                  !.writeErr = w.err,
                                                  !.closed = TRUE]
                    /\ Return(closeAfterFailedWrite(w.err, closeErr))
           ELSE /\ netConn' = [netConn EXCEPT !.written = SubSeq(p, 1, w.n),
                                              !.writeErr = w.err]
                /\ pc' = "written"
                /\ UNCHANGED ret
    /\ UNCHANGED <<u, r, hijacked, rspHeader, challengeKey, subprotocol, compress, c, p,
                   hijackStopCh, handlerCalls, handlerErr, httpReply>>
    /\ UNCHANGED besidesUpgrade

\* Lines 277-284: the handshake deadline and the read timeout are cleared.
ClearDeadlines ==
    /\ pc = "written"
    /\ \E err1 \in NetOutcomes, err2 \in NetOutcomes :
           IF u.HandshakeTimeout > 0 /\ err1 # NoErr
           THEN /\ Return(err1)
                /\ UNCHANGED netConn
           ELSE IF err2 # NoErr
           THEN /\ netConn' = [netConn EXCEPT !.writeDeadline = "none"]
                /\ Return(err2)
           ELSE /\ netConn' = [netConn EXCEPT !.writeDeadline = "none", !.readTimeout = 0]
                /\ pc' = "call"
                /\ UNCHANGED ret
    /\ UNCHANGED <<u, r, hijacked, rspHeader, challengeKey, subprotocol, compress, c, p,
                   hijackStopCh, handlerCalls, handlerErr, httpReply>>
    /\ UNCHANGED besidesUpgrade

\* Lines 287-288: the channel is made and handler(c) called.
CallHandler ==
    /\ pc = "call"
    /\ hijackStopCh' = "open"
    /\ handlerCalls' = handlerCalls + 1
    /\ pc' = "handler"
    /\ UNCHANGED <<u, r, hijacked, rspHeader, challengeKey, subprotocol, compress, c, p,
                   netConn, handlerErr, httpReply, ret>>
    /\ UNCHANGED besidesUpgrade

\* Lines 288-297: handler(c) returns.  With an error the channel is closed and
\* the error returned.  With nil the call goes on to the select, whose only
\* case receives from hijackStopCh: it can proceed once the channel is closed.
AfterHandler ==
    /\ pc \in {"handler", "select"}
    /\ IF pc = "handler"
       THEN \E err \in HandlerOutcomes :
                /\ handlerErr' = err
                /\ IF err # NoErr
                   THEN /\ hijackStopCh' = "closed"
                        /\ Return(err)
                   ELSE /\ pc' = "select"
                        /\ UNCHANGED <<hijackStopCh, ret>>
       ELSE /\ hijackStopCh = "closed"
            /\ Return(NoErr)
            /\ UNCHANGED <<hijackStopCh, handlerErr>>
    /\ UNCHANGED <<u, r, hijacked, rspHeader, challengeKey, subprotocol, compress, c, p,
                   netConn, handlerCalls, httpReply>>
    /\ UNCHANGED besidesUpgrade

Next ==
    \/ Validate
    \/ Negotiate
    \/ CheckBody
    \/ Respond
    \/ SetHandshakeDeadline
    \/ WriteResponse
    \/ ClearDeadlines
    \/ CallHandler
    \/ AfterHandler

Spec == Init /\ [][Next]_vars

(***************************************************************************)
(* Properties of Upgrade.  The checks are restated here one by one, from   *)
(* the request, so that the properties do not lean on the order above.     *)
(***************************************************************************)

NotHijacked == ~hijacked
ConnectionOk == \E i \in DOMAIN r.Connection : ToLower(r.Connection[i]) = "upgrade"
UpgradeOk == \E i \in DOMAIN r.Upgrade : ToLower(r.Upgrade[i]) = "websocket"
MethodOk == r.Method = "GET"
VersionOk == \E i \in DOMAIN r.Version : r.Version[i] = "13"
NoPresetExtensions ==
    \A i \in DOMAIN rspHeader : rspHeader[i].k # "Sec-Websocket-Extensions"
OriginOk ==
    CASE u.CheckOrigin = "allowAll" -> TRUE
      [] u.CheckOrigin = "denyAll" -> FALSE
      [] OTHER -> \/ r.Origin = ""
                  \/ /\ UrlParse(r.Origin).ok
                     /\ ToLower(UrlParse(r.Origin).Host) = ToLower(r.Host)
KeyOk == Base64DecodedLen(r.Key) = 16

CheckPasses(check) ==
    CASE check = "hijacked" -> NotHijacked
      [] check = "connection" -> ConnectionOk
      [] check = "upgrade" -> UpgradeOk
      [] check = "method" -> MethodOk
      [] check = "version" -> VersionOk
      [] check = "extensions" -> NoPresetExtensions
      [] check = "origin" -> OriginOk
      [] check = "key" -> KeyOk

\* The error and the status each check is rejected with.
RejectionOf(check) ==
    CASE check = "hijacked" ->
           Reject(500, "connection mustn't be hijacked")
      [] check = "connection" ->
           Reject(400, "'upgrade' token not found in 'Connection' header")
      [] check = "upgrade" ->
           Reject(400, "'websocket' token not found in 'Upgrade' header")
      [] check = "method" ->
           Reject(405, "request method is not GET")
      [] check = "version" ->
           Reject(400, "13 not found in 'Sec-Websocket-Version' header")
      [] check = "extensions" ->
           Reject(500, "application specific 'Sec-WebSocket-Extensions' headers are unsupported")
      [] check = "origin" ->
           Reject(403, "request origin not allowed by Upgrader.CheckOrigin")
      [] check = "key" ->
           Reject(400, "'Sec-WebSocket-Key' header must be Base64 encoded value of 16-byte in length")

AllChecks ==
    {"hijacked", "connection", "upgrade", "method", "version", "extensions", "origin", "key"}

EveryCheckPasses == \A check \in AllChecks : CheckPasses(check)

\* The first check of an order that the request fails.
RECURSIVE FirstFailing(_)
FirstFailing(order) ==
    IF order = <<>> THEN "none"
    ELSE IF ~CheckPasses(Head(order)) THEN Head(order)
    ELSE FirstFailing(Tail(order))

\* Upgrade returned the rejection of this check, and the host was told its status.
RejectedFor(check) ==
    /\ ret.done
    /\ ret.err = HandshakeError(RejectionOf(check).reason)
    /\ httpReply.reason = ret.err
    /\ httpReply.status = RejectionOf(check).status

Written101 == netConn.written # <<>>

\* C1: the handler is invoked at most once, and only when every validation
\* has passed and the whole 101 response has already been written to the raw
\* connection without error; the invoking step itself writes nothing.
C1_HandlerOnceAfterResponse ==
    [][handlerCalls' # handlerCalls =>
          /\ handlerCalls = 0
          /\ handlerCalls' = 1
          /\ EveryCheckPasses
          /\ p # <<>>
          /\ Head(p) = StatusLine
          /\ p[Len(p)] = EndOfHeaders
          /\ netConn.written = p
          /\ netConn.writeErr = NoErr
          /\ netConn' = netConn]_vars

C1_Witness ==
    /\ handlerCalls = 1
    /\ pc = "handler"
    /\ netConn.written = p
    /\ Len(p) >= 5

\* C2: once the handler has returned, with nil or with an error, Upgrade
\* returns to its caller (it has returned or can take a step), with the
\* handler's error if there was one and nil otherwise.
C2_UpgradeReturnsAfterHandler ==
    (handlerCalls = 1 /\ pc # "handler") =>
        \/ ret.done /\ ret.err = handlerErr
        \/ ~ret.done /\ ENABLED Next

\* C3: a request that fails a validation makes Upgrade return a
\* HandshakeError at once: no byte of a 101 response is written, no Conn is
\* made and the handler is not invoked.
C3_RejectionTouchesNothing ==
    ~EveryCheckPasses =>
        /\ ~Written101
        /\ ~c.made
        /\ p = <<>>
        /\ handlerCalls = 0
        /\ pc \in {"validate", "returned"}
        /\ pc = "returned" => ret.done /\ ret.err.type = "HandshakeError"

C3_Witness ==
    /\ ~EveryCheckPasses
    /\ pc = "returned"
    /\ ret.err.type = "HandshakeError"
    /\ ~OriginOk

\* The order of the validations as the specification lists them.
ClaimedOrder == <<"method", "connection", "upgrade", "version", "key", "origin", "extensions">>

\* The order of the validations in Upgrade.
CodeOrder ==
    <<"hijacked", "connection", "upgrade", "method", "version", "extensions", "origin", "key">>

\* C4 as stated: the rejection reported is that of the first failing check in
\* the order method, Connection, Upgrade, version, key, origin, extensions.
C4_ClaimedOrderWins ==
    (pc = "returned" /\ NotHijacked /\ ~EveryCheckPasses) =>
        RejectedFor(FirstFailing(ClaimedOrder))

\* C4 amended: the rejection reported is that of the first failing check in
\* the order hijacked, Connection, Upgrade, method, version, extensions,
\* origin, key; a request that passes them all is not rejected.
C4_CodeOrderWins ==
    pc # "validate" =>
        IF EveryCheckPasses
        THEN httpReply = NoReply /\ ret.err.type # "HandshakeError"
        ELSE RejectedFor(FirstFailing(CodeOrder))

C4_Witness ==
    /\ pc = "returned"
    /\ ~MethodOk
    /\ ~ConnectionOk
    /\ ~KeyOk
    /\ RejectedFor("connection")

ClientCaused == {"connection", "upgrade", "method", "version", "key", "origin"}

\* C5: a rejection for the client's request carries a 4xx status, a rejection
\* for a pre-set Sec-Websocket-Extensions response header a 5xx status, and
\* no rejection carries 101.
C5_RejectionStatusClass ==
    httpReply # NoReply =>
        /\ httpReply.status # StatusSwitchingProtocols
        /\ httpReply.reason.type = "HandshakeError"
        /\ \E check \in AllChecks :
               /\ ~CheckPasses(check)
               /\ httpReply.reason.message = RejectionOf(check).reason
               /\ check \in ClientCaused => httpReply.status \in 400 .. 499
               /\ check = "extensions" => httpReply.status \in 500 .. 599

C5_Witness ==
    /\ httpReply.via = "AbortWithMsg"
    /\ httpReply.status = 500
    /\ ~NoPresetExtensions
    /\ NotHijacked

\* C6: when the write of the 101 response fails, the connection is closed,
\* the handler is never invoked and Upgrade returns a non-nil error; Upgrade
\* returns nil only for a handshake whose response was written.
C6_FailedWriteReturnsError ==
    /\ netConn.writeErr # NoErr =>
           /\ netConn.closed
           /\ handlerCalls = 0
           /\ ret.done /\ ret.err # NoErr
    /\ (ret.done /\ ret.err = NoErr) => (p # <<>> /\ netConn.written = p)

\* The client's requested subprotocols, as a set.
ClientRequested == {Subprotocols(r)[i] : i \in DOMAIN Subprotocols(r)}

\* The entries of the server's list that the client requested, by position.
CommonProtocols == {i \in DOMAIN u.Subprotocols.elems : u.Subprotocols.elems[i] \in ClientRequested}

ExpectedSubprotocol ==
    IF ~u.Subprotocols.isNil
    THEN IF CommonProtocols = {} THEN <<>>
         ELSE u.Subprotocols.elems[CHOOSE i \in CommonProtocols : \A j \in CommonProtocols : i <= j]
    ELSE IF \E i \in DOMAIN rspHeader : rspHeader[i].k = "Sec-Websocket-Protocol"
         THEN HeaderGet(rspHeader, "Sec-Websocket-Protocol")
         ELSE <<>>

\* C7: with a configured list the negotiated subprotocol is the first entry
\* of the server's list that the client requested, empty when there is none
\* (a pre-set response header is then ignored); with no configured list it is
\* the value of the pre-set Sec-Websocket-Protocol response header.
C7_SubprotocolByServerPreference ==
    /\ pc \in {"body", "respond"} => subprotocol = ExpectedSubprotocol
    /\ c.made => c.subprotocol = ExpectedSubprotocol

C7_Witness ==
    /\ c.made
    /\ u.Subprotocols = List(<< <<"b">>, <<"a">> >>)
    /\ Subprotocols(r) = << <<"a">>, <<"b">> >>
    /\ c.subprotocol = <<"b">>

OfferedDeflate == \E i \in DOMAIN r.Extensions : r.Extensions[i].name = "permessage-deflate"

HasExtensionsLine(buf) ==
    \E i \in DOMAIN buf : buf[i].k \in {"Sec-WebSocket-Extensions", "Sec-Websocket-Extensions"}

\* C8: the Conn has compression, and the 101 response an extensions line,
\* only if EnableCompression is set and the client offered
\* permessage-deflate; the two go together.
C8_CompressionOnlyWhenEnabledAndOffered ==
    /\ c.compression => c.made
    /\ HasExtensionsLine(netConn.written) => HasExtensionsLine(p)
    /\ HasExtensionsLine(p) <=> c.compression
    /\ (c.compression \/ compress) => (u.EnableCompression /\ OfferedDeflate)

C8_Witness ==
    /\ pc = "handler"
    /\ c.compression
    /\ \E i \in DOMAIN netConn.written : netConn.written[i] = ExtensionsLine

\* A permessage-deflate offer that leaves context takeover on: no offer of
\* the request names a no_context_takeover parameter.
ContextTakeoverOffer ==
    /\ OfferedDeflate
    /\ \A i \in DOMAIN r.Extensions :
           r.Extensions[i].name = "permessage-deflate" =>
               r.Extensions[i].params \cap NoTakeover = {}

UpgradeAtRest ==
    UpgradeCalled([u |-> UpgraderOf(NilList, "nil", FALSE, 0, "nil"),
                   r |-> Request("GET", <<"Upgrade">>, <<"websocket">>, <<"13">>,
                                 SampleKey, "", <<>>, <<>>, 0),
                   hijacked |-> FALSE,
                   rspHeader |-> <<>>])

ClientInit ==
    /\ UpgradeAtRest
    /\ MaskAtRest
    /\ SubprotocolsAtRest
    /\ ConnAtRest
    /\ EchoAtRest
    /\ HubAtRest
    /\ JsonAtRest
    /\ \E ec \in BOOLEAN : ClientNew([EnableCompression |-> ec])

\* The headers with the version of the older protocol draft.
preparedHeaders_Version8(up, key) ==
    [Upgrade |-> <<"websocket">>,
     Connection |-> <<"Upgrade">>,
     Version |-> <<"8">>,
     Key |-> key,
     Extensions |-> IF up.EnableCompression THEN <<PermessageDeflate(NoTakeover)>> ELSE <<>>]

\* Lines 48-54: the headers PrepareRequest sets.
preparedHeaders(up, key) ==
    [Upgrade |-> <<"websocket">>,
     Connection |-> <<"Upgrade">>,
     Version |-> <<"13">>,
     Key |-> key,
     Extensions |-> IF up.EnableCompression THEN <<PermessageDeflate(NoTakeover)>> ELSE <<>>]

\* PrepareRequest: the handshake headers, with a fresh challenge key.
PrepareRequest ==
    /\ cPc = "new"
    /\ \E key \in GeneratedKeys : cReq' = preparedHeaders(cu, key)
    /\ cPc' = "prepared"
    /\ UNCHANGED <<cu, cResp, cHijacked, cConn, cErr>>
    /\ UNCHANGED besidesClient

\* client.Do(ctx, req, resp): the request is sent and a response received.
ClientDo ==
    /\ cPc = "prepared"
    /\ cResp' \in Responses
    /\ cPc' = "answered"
    /\ UNCHANGED <<cu, cReq, cHijacked, cConn, cErr>>
    /\ UNCHANGED besidesClient

\* The test of lines 62-65 with the accept key left out.
badHandshake_AcceptUnchecked(req, resp) ==
    \/ resp.StatusCode # 101
    \/ ~tokenContainsValue(resp.Upgrade, "websocket")
    \/ ~tokenContainsValue(resp.Connection, "Upgrade")

\* Lines 62-65: the response is no valid answer to the request.
badHandshake(req, resp) ==
    \/ resp.StatusCode # 101
    \/ ~tokenContainsValue(resp.Upgrade, "websocket")
    \/ ~tokenContainsValue(resp.Connection, "Upgrade")
    \/ resp.Accept # computeAcceptKeyBytes(req.Key)

\* The client Conn made with the role of a server.
clientConn_ServerRole(resp) ==
    [newConn(TRUE) EXCEPT !.compression = responseHasDeflate(resp.Extensions)]

\* The client Conn compressed by the client's own setting.
clientConn_OwnSetting(resp) ==
    [newConn(FALSE) EXCEPT !.compression = cu.EnableCompression]

\* Lines 75-88: the client Conn, compressed if the response says so.
clientConn(resp) ==
    [newConn(FALSE) EXCEPT !.compression = responseHasDeflate(resp.Extensions)]

\* UpgradeResponse, lines 61-90.
UpgradeResponse ==
    /\ cPc = "answered"
    /\ cPc' = "done"
    /\ IF badHandshake(cReq, cResp)
       THEN /\ cErr' = ErrBadHandshake
            /\ UNCHANGED <<cHijacked, cConn>>
       ELSE /\ cHijacked' = TRUE
            /\ \E hijackErr \in {NoErr, ErrHijack} :
                   IF hijackErr # NoErr
                   THEN /\ cErr' = hijackErr
                        /\ UNCHANGED cConn
                   ELSE /\ cConn' = clientConn(cResp)
                        /\ cErr' = NoErr
    /\ UNCHANGED <<cu, cReq, cResp>>
    /\ UNCHANGED besidesClient

ClientNext ==
    \/ PrepareRequest
    \/ ClientDo
    \/ UpgradeResponse

ClientSpec == ClientInit /\ [][ClientNext]_vars

\* The accept value of the request's key, and the tokens, restated.
ResponseAcceptOk == cResp.Accept = <<"accept", cReq.Key>>
ResponseUpgradeOk == \E i \in DOMAIN cResp.Upgrade : ToLower(cResp.Upgrade[i]) = "websocket"
ResponseConnectionOk == \E i \in DOMAIN cResp.Connection : ToLower(cResp.Connection[i]) = "upgrade"

\* C10: UpgradeResponse fails whenever the status is not 101, the Upgrade
\* header lacks websocket, the Connection header lacks upgrade or the accept
\* key is not that of the request's key; it then returns ErrBadHandshake,
\* whatever the cause, no Conn, and does not hijack the raw connection.
C10_BadResponseIsBadHandshake ==
    (/\ cPc = "done"
     /\ \/ cResp.StatusCode # 101
        \/ ~ResponseUpgradeOk
        \/ ~ResponseConnectionOk
        \/ ~ResponseAcceptOk) =>
        /\ cErr = ErrBadHandshake
        /\ ~cConn.made
        /\ ~cHijacked

C10_Witness ==
    /\ cPc = "done"
    /\ cResp.StatusCode = 101
    /\ ResponseUpgradeOk
    /\ ResponseConnectionOk
    /\ ~ResponseAcceptOk
    /\ cResp.Accept # <<>>
    /\ cErr = ErrBadHandshake

(***************************************************************************)
(* maskBytes applied to a buffer, again and again with the same key and    *)
(* the same starting position.                                             *)
(***************************************************************************)

MaskInit ==
    /\ UpgradeAtRest
    /\ ClientNew([EnableCompression |-> FALSE])
    /\ SubprotocolsAtRest
    /\ ConnAtRest
    /\ EchoAtRest
    /\ HubAtRest
    /\ JsonAtRest
    /\ \E key \in MaskKeys, pos \in 0..MaxPos, b \in Payloads : MaskCalled(key, pos, b)

\* maskBytes(mKey, mPos, mBuf)
MaskCall ==
    /\ mCalls < MaxCalls
    /\ LET out == maskBytes(mKey, mPos, mBuf)
       IN  /\ mBuf' = out.b
           /\ mRet' = out.ret
    /\ mCalls' = mCalls + 1
    /\ UNCHANGED <<mKey, mPos, mOrig, mDone>>
    /\ UNCHANGED besidesMask

MaskNext == MaskCall

MaskSpec == MaskInit /\ [][MaskNext]_vars

(***************************************************************************)
(* maskBytes applied to a buffer chunk by chunk: each call masks the next  *)
(* bytes of the buffer and starts at the position the call before it       *)
(* returned.                                                               *)
(***************************************************************************)

\* pos = maskBytes(mKey, pos, mBuf[mDone : mDone+n]), pos being mPos at first.
MaskChunk ==
    /\ mCalls < MaxChunks
    /\ \E n \in 0..(Len(mBuf) - mDone) :
           LET pos == IF mCalls = 0 THEN mPos ELSE mRet
               out == maskBytes(mKey, pos, SubSeq(mBuf, mDone + 1, mDone + n))
           IN  /\ mBuf' = SubSeq(mBuf, 1, mDone) \o out.b
                             \o SubSeq(mBuf, mDone + n + 1, Len(mBuf))
               /\ mRet' = out.ret
               /\ mDone' = mDone + n
    /\ mCalls' = mCalls + 1
    /\ UNCHANGED <<mKey, mPos, mOrig>>
    /\ UNCHANGED besidesMask

ChunkNext == MaskChunk

ChunkSpec == MaskInit /\ [][ChunkNext]_vars

(***************************************************************************)
(* Subprotocols called on a request, as TestSubprotocols does.             *)
(***************************************************************************)

SubprotocolsInit ==
    /\ UpgradeAtRest
    /\ ClientNew([EnableCompression |-> FALSE])
    /\ MaskAtRest
    /\ ConnAtRest
    /\ EchoAtRest
    /\ HubAtRest
    /\ JsonAtRest
    /\ \E h \in HeaderTexts : SubprotocolsCalled(h)

\* protocols := Subprotocols(&r)
SubprotocolsCall ==
    /\ sPc = "call"
    /\ sResult' = Subprotocols([Protocol |-> sHeader])
    /\ sPc' = "done"
    /\ UNCHANGED sHeader
    /\ UNCHANGED besidesSubprotocols

SubprotocolsNext == SubprotocolsCall

SubprotocolsSpec == SubprotocolsInit /\ [][SubprotocolsNext]_vars

(***************************************************************************)
(* A Conn in use: the application reads messages and writes messages,      *)
(* pings and a Close frame, while the peer sends frames of its choosing.   *)
(* Compression, the size limit and the UTF-8 check of text are left out.   *)
(***************************************************************************)

\* A response UpgradeResponse accepts, to the request with the sample key.
AcceptedResponse ==
    [StatusCode |-> 101, Upgrade |-> <<"websocket">>, Connection |-> <<"Upgrade">>,
     Accept |-> computeAcceptKey(SampleKey), Extensions |-> <<>>]

\* The Conn Upgrade hands to the handler and the Conn UpgradeResponse returns.
ServerConn == connOf("Upgrade", MakeConn(<<>>, FALSE))
ClientConn == connOf("UpgradeResponse", clientConn(AcceptedResponse))

\* The mask keys: the peer's, and what a client Conn draws for a frame.
PeerKey == <<1, 2, 3, 4>>
WriteKeys == {<<255, 170, 85, 16>>}

\* A frame as the peer sends it: the payload masked with the key if masked.
PeerFrame(opcode, fin, masked, plain) ==
    Frame(opcode, fin, masked, IF masked THEN PeerKey ELSE <<>>,
          IF masked THEN maskBytes(PeerKey, 0, plain).b ELSE plain)

\* What the peer may send: opcode, fin and the payload before any masking.
PeerSends ==
    { <<"text", FALSE, <<1>> >>, <<"text", TRUE, <<1>> >>,
      <<"binary", TRUE, <<4>> >>,
      <<"continuation", FALSE, <<2, 3>> >>, <<"continuation", TRUE, <<2, 3>> >>,
      <<"ping", TRUE, <<7>> >>, <<"pong", TRUE, <<>> >>,
      <<"close", TRUE, <<>> >>, <<"close", TRUE, ClosePayload(1001, <<98>>)>> }

\* A frame as the Conn writes it: masked with a fresh key by a client Conn,
\* unmasked by a server Conn.
writeFrame(cn, opcode, plain, key) ==
    IF cn.isServer THEN Frame(opcode, TRUE, FALSE, <<>>, plain)
    ELSE Frame(opcode, TRUE, TRUE, key, maskBytes(key, 0, plain).b)

\* Every write goes through.
writeFails_Never(cn) == FALSE

\* A write fails at once when the Conn has a write error: a Close frame was sent.
writeFails(cn) == cn.writeErr # NoErr

\* The outcome of one step of a read: the Conn, the wire, the stream, and
\* what the read call returns if it returns.
Outcome(cn, w, closed, returned, result) ==
    [conn |-> cn, wire |-> w, streamClosed |-> closed, returned |-> returned,
     result |-> result]

\* The masking of any incoming frame is accepted.
maskMismatch_Unchecked(cn, f) == FALSE

\* A server Conn must receive masked frames, a client Conn unmasked ones.
maskMismatch(cn, f) == f.masked # cn.isServer

\* A continuation frame is taken even with no message in progress.
sequenceError_ContinuationUnchecked(cn, f) ==
    f.opcode \in {"text", "binary"} /\ cn.inProgress

\* A continuation frame with no message in progress, or an initiating frame
\* with one in progress.
sequenceError(cn, f) ==
    \/ f.opcode = "continuation" /\ ~cn.inProgress
    \/ f.opcode \in {"text", "binary"} /\ cn.inProgress

\* A protocol error: a Close frame with the code is sent if none was sent
\* yet, the stream is torn down, the read fails for good.
failProtocol(cn, w, code, key) ==
    Outcome([cn EXCEPT !.state = "closed",
                       !.readErr = ProtocolError(code),
                       !.writeErr = IF writeFails(cn) THEN @ ELSE ErrCloseSent,
                       !.inProgress = FALSE,
                       !.partial = <<>>],
            IF writeFails(cn) THEN w
            ELSE Append(w, writeFrame(cn, "close", ClosePayload(code, <<>>), key)),
            TRUE, TRUE,
            [err |-> ProtocolError(code), messageType |-> "none", payload |-> <<>>])

\* A Ping left unanswered.
handlePing_NoPong(cn, w, closed, f, key) == Outcome(cn, w, closed, FALSE, NoMessage)

\* A Ping is answered with a Pong of the same payload; the read goes on.
handlePing(cn, w, closed, f, key) ==
    Outcome(cn,
            IF writeFails(cn) THEN w
            ELSE Append(w, writeFrame(cn, "pong", Unmasked(f), key)),
            closed, FALSE, NoMessage)

\* The code and the reason a Close frame carries; 1005 when it carries none.
CloseCodeOf(payload) ==
    IF Len(payload) >= 2 THEN payload[1] * 256 + payload[2] ELSE 1005
CloseTextOf(payload) ==
    IF Len(payload) >= 2 THEN SubSeq(payload, 3, Len(payload)) ELSE <<>>

\* The reply to a peer's Close that always carries 1000.
closeReply_AlwaysNormal(payload) == ClosePayload(1000, <<>>)

\* The reply to a peer's Close: its code, or 1000 and no reason if it had none.
closeReply(payload) ==
    IF Len(payload) >= 2 THEN ClosePayload(CloseCodeOf(payload), <<>>)
    ELSE ClosePayload(1000, <<>>)

\* The peer's Close frame.  If the local side has sent no Close, one is sent
\* in reply and reads and writes fail with the CloseError from now on;
\* otherwise the handshake is complete and the stream is closed.
handleClose(cn, w, closed, f, key) ==
    LET payload == Unmasked(f)
        err == CloseError(CloseCodeOf(payload), CloseTextOf(payload))
        result == [err |-> err, messageType |-> "none", payload |-> <<>>]
    IN  IF cn.state = "open"
        THEN Outcome([cn EXCEPT !.state = "closeReceived", !.readErr = err,
                                !.writeErr = err],
                     Append(w, writeFrame(cn, "close", closeReply(payload), key)),
                     closed, TRUE, result)
        ELSE Outcome([cn EXCEPT !.state = "closed", !.readErr = err],
                     w, TRUE, TRUE, result)

\* A data frame: it starts a message or continues the one in progress, and
\* the message is returned when the frame has fin set.
handleData(cn, w, closed, f) ==
    LET payload == cn.partial \o Unmasked(f)
        kind == IF f.opcode = "continuation" THEN cn.messageType ELSE f.opcode
    IN  IF f.fin
        THEN Outcome([cn EXCEPT !.inProgress = FALSE, !.messageType = "none",
                                !.partial = <<>>],
                     w, closed, TRUE,
                     [err |-> NoErr, messageType |-> kind, payload |-> payload])
        ELSE Outcome([cn EXCEPT !.inProgress = TRUE, !.messageType = kind,
                                !.partial = payload],
                     w, closed, FALSE, NoMessage)

\* One frame taken from the stream by the read in progress.
advanceFrame(cn, w, closed, f, key) ==
    IF maskMismatch(cn, f) THEN failProtocol(cn, w, 1002, key)
    ELSE IF sequenceError(cn, f) THEN failProtocol(cn, w, 1002, key)
    ELSE CASE f.opcode = "ping" -> handlePing(cn, w, closed, f, key)
           [] f.opcode = "pong" -> Outcome(cn, w, closed, FALSE, NoMessage)
           [] f.opcode = "close" -> handleClose(cn, w, closed, f, key)
           [] OTHER -> handleData(cn, w, closed, f)

ConnInit ==
    /\ UpgradeAtRest
    /\ ClientNew([EnableCompression |-> FALSE])
    /\ MaskAtRest
    /\ SubprotocolsAtRest
    /\ EchoAtRest
    /\ HubAtRest
    /\ JsonAtRest
    /\ \E cn \in {ServerConn, ClientConn} : ConnMade(cn)

\* The application calls ReadMessage.
ReadMessage ==
    /\ ~readCall.active
    /\ wsConn.madeBy # "none"
    /\ readCall' = [NoReadCall EXCEPT !.active = TRUE, !.wireMark = Len(wire)]
    /\ UNCHANGED <<wsConn, wire, streamClosed, readResult, framesRead, writeCalls,
                   writeResult>>
    /\ UNCHANGED besidesConn

\* The read in progress goes on: it returns the Conn's read error if there
\* is one, and otherwise takes the next frame the peer sent.
ReadFrame ==
    /\ readCall.active
    /\ IF wsConn.readErr # NoErr
       THEN /\ readResult' = [err |-> wsConn.readErr, messageType |-> "none",
                              payload |-> <<>>]
            /\ readCall' = [readCall EXCEPT !.active = FALSE]
            /\ UNCHANGED <<wsConn, wire, streamClosed, framesRead>>
       ELSE /\ framesRead < MaxFrames
            /\ \E sent \in PeerSends, masked \in BOOLEAN, key \in WriteKeys :
                   LET f == PeerFrame(sent[1], sent[2], masked, sent[3])
                       out == advanceFrame(wsConn, wire, streamClosed, f, key)
                   IN  /\ wsConn' = out.conn
                       /\ wire' = out.wire
                       /\ streamClosed' = out.streamClosed
                       /\ readCall' =
                              [readCall EXCEPT
                                 !.active = ~out.returned,
                                 !.frames = @ + 1,
                                 !.last = f,
                                 !.data = IF sent[1] \in {"text", "binary", "continuation"}
                                          THEN @ \o sent[3] ELSE @,
                                 !.pings = IF sent[1] = "ping"
                                           THEN Append(@, [payload |-> sent[3],
                                                           midMessage |-> wsConn.inProgress])
                                           ELSE @]
                       /\ readResult' = IF out.returned THEN out.result ELSE readResult
            /\ framesRead' = framesRead + 1
    /\ UNCHANGED <<writeCalls, writeResult>>
    /\ UNCHANGED besidesConn

\* One write call of the application: the frame goes to the stream unless
\* the write fails at once.
WriteCall(op, opcode, plain, key) ==
    /\ wsConn.madeBy # "none"
    /\ writeCalls < MaxWrites
    /\ writeCalls' = writeCalls + 1
    /\ IF writeFails(wsConn)
       THEN /\ writeResult' = [op |-> op, err |-> wsConn.writeErr]
            /\ UNCHANGED <<wsConn, wire>>
       ELSE /\ writeResult' = [op |-> op, err |-> NoErr]
            /\ wire' = Append(wire, writeFrame(wsConn, opcode, plain, key))
            /\ wsConn' = IF opcode = "close"
                         THEN [wsConn EXCEPT !.state = "closeSent", !.writeErr = ErrCloseSent]
                         ELSE wsConn
    /\ UNCHANGED <<streamClosed, readCall, readResult, framesRead>>
    /\ UNCHANGED besidesConn

\* WriteMessage(TextMessage, payload)
WriteMessage == \E key \in WriteKeys : WriteCall("writeMessage", "text", <<5>>, key)

\* The application's ping(payload)
WritePing == \E key \in WriteKeys : WriteCall("ping", "ping", <<6>>, key)

\* writeClose(code, reason)
WriteClose ==
    \E key \in WriteKeys : WriteCall("writeClose", "close", ClosePayload(1000, <<>>), key)

ConnNext ==
    \/ ReadMessage
    \/ ReadFrame
    \/ WriteMessage
    \/ WritePing
    \/ WriteClose

ConnSpec == ConnInit /\ [][ConnNext]_vars

(***************************************************************************)
(* ExampleClient against runServer: the client prepares and sends its      *)
(* request, the server's handler calls Upgrade on it, the client reads the *)
(* response and upgrades, then writes "hello" and reads the echo.          *)
(***************************************************************************)

\* The header key as the HTTP library stores it and looks it up: the first
\* letter and each letter after a hyphen in upper case, the others in lower.
NormalizeHeaderKey(k) ==
    CASE k = "Sec-WebSocket-Version" -> "Sec-Websocket-Version"
      [] k = "Sec-WebSocket-Key" -> "Sec-Websocket-Key"
      [] k = "Sec-WebSocket-Extensions" -> "Sec-Websocket-Extensions"
      [] k = "Sec-WebSocket-Accept" -> "Sec-Websocket-Accept"
      [] k = "Sec-WebSocket-Protocol" -> "Sec-Websocket-Protocol"
      [] OTHER -> k

\* The value of the first line under the key, none if there is no such line.
RECURSIVE LineValue(_, _, _)
LineValue(lines, key, none) ==
    IF lines = <<>> THEN none
    ELSE IF NormalizeHeaderKey(Head(lines).k) = NormalizeHeaderKey(key) THEN Head(lines).v
    ELSE LineValue(Tail(lines), key, none)

\* The header lines of the request PrepareRequest prepared.
RequestLines(req) ==
    <<HeaderLine("Upgrade", req.Upgrade),
      HeaderLine("Connection", req.Connection),
      HeaderLine("Sec-WebSocket-Version", req.Version),
      HeaderLine("Sec-WebSocket-Key", req.Key)>>
    \o (IF req.Extensions # <<>>
        THEN <<HeaderLine("Sec-WebSocket-Extensions", req.Extensions)>> ELSE <<>>)

\* The request as Upgrade reads it: a GET without body, Origin or
\* Sec-Websocket-Protocol header, with the lines the client sent.
RequestReceived(lines) ==
    Request("GET",
            LineValue(lines, "Connection", <<>>),
            LineValue(lines, "Upgrade", <<>>),
            LineValue(lines, "Sec-Websocket-Version", <<>>),
            LineValue(lines, "Sec-Websocket-Key", ""),
            "", <<>>,
            LineValue(lines, "Sec-Websocket-Extensions", <<>>),
            0)

\* parseDataHeader on the value of a Sec-WebSocket-Extensions response line.
parseDataHeader(value) ==
    IF value = ExtensionsLine.v THEN <<PermessageDeflate(NoTakeover)>> ELSE <<>>

\* The response as the client reads it from the bytes the server wrote.
ResponseReceived(lines) ==
    [StatusCode |-> IF lines # <<>> /\ Head(lines) = StatusLine THEN 101 ELSE 0,
     Upgrade |-> LineValue(lines, "Upgrade", <<>>),
     Connection |-> LineValue(lines, "Connection", <<>>),
     Accept |-> LineValue(lines, "Sec-Websocket-Accept", <<>>),
     Extensions |-> parseDataHeader(LineValue(lines, "Sec-WebSocket-Extensions", <<>>))]

\* The response the host makes of a rejection: the status and no header the
\* client looks at.
ErrorResponse(status) == [NoResponse EXCEPT !.StatusCode = status]

\* The request of a server that is waiting for one.
NoRequest == Request("", <<>>, <<>>, <<>>, "", "", <<>>, <<>>, 0)

\* runServer's upgrader and the settings that keep its handshake: a list of
\* subprotocols, compression, a handshake timeout, an origin policy that
\* admits every request.
EchoUpgraders ==
    { UpgraderOf(sp, co, ec, ht, "nil") :
        sp \in {NilList, List(<<<<"a">>>>)},
        co \in {"nil", "allowAll"},
        ec \in BOOLEAN,
        ht \in {0, 1} }

\* "hello"
Hello == <<104, 101, 108, 108, 111>>

HandshakeInit ==
    /\ \E up \in EchoUpgraders :
           UpgradeCalled([u |-> up, r |-> NoRequest, hijacked |-> FALSE, rspHeader |-> <<>>])
    /\ \E ec \in BOOLEAN : ClientNew([EnableCompression |-> ec])
    /\ MaskAtRest
    /\ SubprotocolsAtRest
    /\ ConnAtRest
    /\ EchoAtRest
    /\ HubAtRest
    /\ JsonAtRest

\* c.Do: the request goes out; the server's handler calls Upgrade on it.
SendRequest ==
    /\ cPc = "prepared"
    /\ r = NoRequest
    /\ r' = RequestReceived(RequestLines(cReq))
    /\ cPc' = "sent"
    /\ UNCHANGED <<u, hijacked, rspHeader, pc, challengeKey, subprotocol, compress, c, p,
                   netConn, hijackStopCh, handlerCalls, handlerErr, httpReply, ret>>
    /\ UNCHANGED <<cu, cReq, cResp, cHijacked, cConn, cErr>>
    /\ UNCHANGED <<echoVars, besidesHandshake>>

\* c.Do returns: with the response the server wrote in full, with the
\* host's error response to a rejected handshake, or with an error.
ReceiveResponse ==
    /\ cPc = "sent"
    /\ \/ /\ p # <<>>
          /\ netConn.written = p
          /\ cResp' = ResponseReceived(netConn.written)
          /\ cPc' = "answered"
          /\ UNCHANGED cErr
       \/ /\ httpReply # NoReply
          /\ cResp' = ErrorResponse(httpReply.status)
          /\ cPc' = "answered"
          /\ UNCHANGED cErr
       \/ /\ ret.done
          /\ httpReply = NoReply
          /\ netConn.written # p \/ p = <<>>
          /\ cErr' = NetErr("the server closed connection before returning the first response byte")
          /\ cPc' = "failed"
          /\ UNCHANGED cResp
    /\ UNCHANGED <<cu, cReq, cHijacked, cConn>>
    /\ UNCHANGED <<upgradeVars, echoVars, besidesHandshake>>

\* conn.WriteMessage(TextMessage, []byte("hello")) on the client's Conn.
ClientWriteMessage ==
    /\ cPc = "done"
    /\ cConn.made
    /\ ~cConn.compression
    /\ echo.sent = <<>>
    /\ \E key \in WriteKeys :
           echo' = [echo EXCEPT
                      !.sent = Hello,
                      !.toServer = Append(@, writeFrame(connOf("UpgradeResponse", cConn),
                                                        "text", Hello, key))]
    /\ UNCHANGED <<upgradeVars, clientVars, besidesHandshake>>

\* One round of the handler's loop: ReadMessage, then WriteMessage of what
\* was read; a read error ends the loop.
HandlerEcho ==
    /\ pc = "handler"
    /\ ~c.compression
    /\ echo.toServer # <<>>
    /\ \E key \in WriteKeys :
           LET cn == connOf("Upgrade", c)
               out == advanceFrame(cn, <<>>, FALSE, Head(echo.toServer), key)
               read == out.returned /\ out.result.err = NoErr
           IN  echo' = [echo EXCEPT
                          !.toServer = Tail(@),
                          !.serverRead = IF out.returned THEN out.result ELSE @,
                          !.toClient =
                              @ \o out.wire \o
                              (IF read
                               THEN <<writeFrame(cn, out.result.messageType,
                                                 out.result.payload, key)>>
                               ELSE <<>>)]
    /\ UNCHANGED <<upgradeVars, clientVars, besidesHandshake>>

\* conn.ReadMessage() on the client's Conn.
ClientReadMessage ==
    /\ cPc = "done"
    /\ cConn.made
    /\ echo.toClient # <<>>
    /\ echo.clientRead = NoMessage
    /\ \E key \in WriteKeys :
           LET out == advanceFrame(connOf("UpgradeResponse", cConn), <<>>, FALSE,
                                   Head(echo.toClient), key)
           IN  echo' = [echo EXCEPT
                          !.toClient = Tail(@),
                          !.clientRead = IF out.returned THEN out.result ELSE @]
    /\ UNCHANGED <<upgradeVars, clientVars, besidesHandshake>>

HandshakeNext ==
    \/ PrepareRequest
    \/ SendRequest
    \/ (r # NoRequest /\ Next)
    \/ ReceiveResponse
    \/ UpgradeResponse
    \/ ClientWriteMessage
    \/ HandlerEcho
    \/ ClientReadMessage

HandshakeSpec == HandshakeInit /\ [][HandshakeNext]_vars

\* The response carries the permessage-deflate extension, restated.
ResponseIncludesDeflate ==
    \E i \in DOMAIN cResp.Extensions : cResp.Extensions[i].name = "permessage-deflate"

C12_HandshakeEndToEnd ==
    /\ (r # NoRequest /\ pc # "validate") =>
           /\ httpReply = NoReply
           /\ ret.err.type # "HandshakeError"
    /\ (cPc = "done" /\ p # <<>> /\ netConn.written = p) =>
           /\ cResp.StatusCode = 101
           /\ cErr # ErrBadHandshake
           /\ cHijacked
           /\ cErr = NoErr => cConn.made /\ ~cConn.isServer /\ c.made /\ c.isServer
    /\ echo.serverRead # NoMessage =>
           echo.serverRead = [err |-> NoErr, messageType |-> "text", payload |-> echo.sent]
    /\ echo.clientRead # NoMessage =>
           echo.clientRead = [err |-> NoErr, messageType |-> "text", payload |-> echo.sent]

C12_Witness ==
    /\ cPc = "done"
    /\ cErr = NoErr
    /\ cu.EnableCompression
    /\ ~u.EnableCompression
    /\ pc = "handler"
    /\ echo.sent = <<104, 101, 108, 108, 111>>
    /\ echo.clientRead = [err |-> NoErr, messageType |-> "text",
                          payload |-> <<104, 101, 108, 108, 111>>]

\* The default origin policy, restated: no Origin header, or an Origin that
\* parses as a URL whose host is the request's Host but for ASCII case.
DefaultPolicyApproves ==
    \/ r.Origin = ""
    \/ /\ UrlParse(r.Origin).ok
       /\ ToLower(UrlParse(r.Origin).Host) = ToLower(r.Host)

\* The checks Upgrade makes before it consults the origin policy.
ChecksBeforeOriginPass ==
    /\ NotHijacked
    /\ ConnectionOk
    /\ UpgradeOk
    /\ MethodOk
    /\ VersionOk
    /\ NoPresetExtensions

\* C13: with no CheckOrigin configured, a request that reaches the origin
\* check is approved exactly when it has no Origin header or its Origin
\* parses as a URL whose host equals the request's Host, ASCII case ignored;
\* otherwise it is rejected with the origin HandshakeError and status 403.  A
\* configured CheckOrigin decides alone.
C13_DefaultOriginPolicy ==
    (pc # "validate" /\ ChecksBeforeOriginPass) =>
        /\ u.CheckOrigin = "nil" => (RejectedFor("origin") <=> ~DefaultPolicyApproves)
        /\ u.CheckOrigin = "allowAll" => ~RejectedFor("origin")
        /\ u.CheckOrigin = "denyAll" => RejectedFor("origin")
        /\ RejectedFor("origin") => httpReply.status = StatusForbidden

C13_Witness ==
    /\ pc = "negotiate"
    /\ u.CheckOrigin = "nil"
    /\ r.Origin = "http://EXAMPLE.com"
    /\ r.Host = "example.com"
    /\ ChecksBeforeOriginPass
    /\ ~ret.done

\* The payload with byte i XORed with key[(pos + i) mod 4], bytes counted from 0.
MaskedOnce ==
    [i \in 1..Len(mOrig) |-> Xor(mOrig[i], mKey[((mPos + (i - 1)) % 4) + 1])]

\* C19: one application of maskBytes XORs payload byte i with
\* key[(pos + i) mod 4]; a second application with the same key and the same
\* starting position gives the original payload back (and so on: an odd
\* number of applications masks, an even number restores).
C19_MaskingIsItsOwnInverse ==
    /\ mCalls % 2 = 1 => mBuf = MaskedOnce
    /\ mCalls % 2 = 0 => mBuf = mOrig

C19_Witness ==
    /\ mCalls = 2
    /\ Len(mOrig) = MaxPayload
    /\ mKey = <<255, 170, 85, 16>>
    /\ mPos % 4 = 1
    /\ MaskedOnce # mOrig
    /\ mBuf = mOrig

\* A text of whitespace only, and a text without its outer whitespace: what
\* lies between its first and its last character that is no whitespace.
Blank(t) == \A i \in DOMAIN t : IsSpace(t[i])
Inner(t) ==
    IF Blank(t) THEN <<>>
    ELSE LET solid == {i \in DOMAIN t : ~IsSpace(t[i])}
             first == CHOOSE i \in solid : \A j \in solid : i <= j
             last == CHOOSE i \in solid : \A j \in solid : j <= i
         IN  SubSeq(t, first, last)

\* The k-th of the entries the commas of t separate, commas counted from 1:
\* it lies between the comma before it and the comma after it.
CommasOf(t) == {i \in DOMAIN t : t[i] = ","}
CommaAt(t, k) ==
    CHOOSE i \in CommasOf(t) : Cardinality({j \in CommasOf(t) : j < i}) = k - 1
EntryOf(t, k) ==
    LET from == IF k = 1 THEN 1 ELSE CommaAt(t, k - 1) + 1
        to == IF k = Cardinality(CommasOf(t)) + 1 THEN Len(t) ELSE CommaAt(t, k) - 1
    IN  SubSeq(t, from, to)

\* C20: Subprotocols returns nil when the Sec-Websocket-Protocol header is
\* empty or whitespace only; otherwise it returns the comma-separated entries
\* of the header, in order, each without its surrounding whitespace.
C20_SubprotocolsSplitsAndTrims ==
    sPc = "done" =>
        IF Blank(sHeader) THEN sResult = <<>>
        ELSE /\ Len(sResult) = Cardinality(CommasOf(Inner(sHeader))) + 1
             /\ \A k \in DOMAIN sResult : sResult[k] = Inner(EntryOf(Inner(sHeader), k))

C20_Witness ==
    /\ sPc = "done"
    /\ sHeader = <<" ", "a", ",", " ", "b">>
    /\ sResult = << <<"a">>, <<"b">> >>

(***************************************************************************)
(* Properties of a Conn in use.                                            *)
(***************************************************************************)

\* The payload of a frame on the wire as its receiver will see it: byte i
\* XORed with key[i mod 4] when the frame is masked.
PlainOf(f) ==
    IF f.masked THEN [i \in 1..Len(f.payload) |-> Xor(f.payload[i], f.key[((i - 1) % 4) + 1])]
    ELSE f.payload

\* The number of Close frames among the frames written.
CloseFrames(w) == Cardinality({i \in DOMAIN w : w[i].opcode = "close"})

\* The step is a write call; the step ends a read call; the step takes a
\* frame from the peer, and the frame's masking suits the Conn's role.
WriteStep == writeCalls' # writeCalls
ReadReturns == readCall.active /\ ~readCall'.active
FrameTaken == readCall'.frames = readCall.frames + 1
TakenMaskOk == readCall'.last.masked = wsConn.isServer

\* The step fails the read with a protocol error of this code; a Close frame
\* with the code goes out if no Close frame had been sent.
ProtocolFailure(code) ==
    /\ ReadReturns
    /\ readResult'.err = ProtocolError(code)
    /\ wsConn'.readErr = ProtocolError(code)
    /\ IF wsConn.state = "open"
       THEN /\ Len(wire') = Len(wire) + 1
            /\ SubSeq(wire', 1, Len(wire)) = wire
            /\ wire'[Len(wire')].opcode = "close"
            /\ PlainOf(wire'[Len(wire')]) = <<code \div 256, code % 256>>
       ELSE wire' = wire

C15_PeerCloseAnsweredOnce ==
    [][/\ (FrameTaken /\ TakenMaskOk /\ readCall'.last.opcode = "close"
              /\ wsConn.state = "open") =>
              LET peer == PlainOf(readCall'.last)
              IN  /\ Len(wire') = Len(wire) + 1
                  /\ SubSeq(wire', 1, Len(wire)) = wire
                  /\ wire'[Len(wire')].opcode = "close"
                  /\ PlainOf(wire'[Len(wire')]) =
                         IF Len(peer) >= 2 THEN <<peer[1], peer[2]>> ELSE <<1000 \div 256, 1000 % 256>>
                  /\ ReadReturns
                  /\ readResult'.err.type = "CloseError"
                  /\ wsConn'.state = "closeReceived"
                  /\ wsConn'.readErr = readResult'.err
       /\ wsConn.state = "closeReceived" =>
              /\ wire' = wire
              /\ wsConn' = wsConn
              /\ ReadReturns => readResult'.err = wsConn.readErr
              /\ WriteStep => writeResult'.err = wsConn.readErr
              /\ wsConn.readErr.type = "CloseError"
       /\ (FrameTaken /\ TakenMaskOk /\ readCall'.last.opcode = "close"
              /\ wsConn.state = "closeSent") =>
              /\ wire' = wire
              /\ streamClosed'
              /\ ReadReturns
              /\ readResult'.err.type = "CloseError"]_vars

C15_Witness ==
    /\ wsConn.state = "closeReceived"
    /\ readResult.err = CloseError(1001, <<98>>)
    /\ writeCalls = 1
    /\ writeResult.err = CloseError(1001, <<98>>)
    /\ Len(wire) = 1
    /\ PlainOf(wire[1]) = <<3, 233>>

\* A read call has just returned a message; the payloads of the Pongs
\* written since the call began; the payloads of the Pings it took.
MessageReturned ==
    /\ ~readCall.active
    /\ readCall.frames > 0
    /\ readResult.err = NoErr
    /\ readResult.messageType # "none"
PongsSince ==
    LET since == SubSeq(wire, readCall.wireMark + 1, Len(wire))
        pongs == SelectSeq(since, LAMBDA f : f.opcode = "pong")
    IN  [i \in DOMAIN pongs |-> PlainOf(pongs[i])]
PingsTaken == [i \in DOMAIN readCall.pings |-> readCall.pings[i].payload]

C17_FragmentsWellSequenced ==
    [][/\ (FrameTaken /\ TakenMaskOk) =>
              /\ (readCall'.last.opcode = "continuation" /\ ~wsConn.inProgress) =>
                     ProtocolFailure(1002)
              /\ (readCall'.last.opcode \in {"text", "binary"} /\ wsConn.inProgress) =>
                     ProtocolFailure(1002)
       /\ (ReadReturns /\ readResult'.err = NoErr) =>
              /\ FrameTaken
              /\ readCall'.last.fin
              /\ readCall'.last.opcode \in {"text", "binary", "continuation"}
              /\ readResult'.messageType \in {"text", "binary"}]_vars

C17_Witness ==
    /\ ~readCall.active
    /\ readCall.frames = 2
    /\ readCall.last.opcode = "text"
    /\ readCall.last.masked = wsConn.isServer
    /\ readCall.data = <<1, 1>>
    /\ readResult.err = ProtocolError(1002)

\* C18: the role of a Conn is that of its maker and never changes: the Conn
\* of Upgrade writes only unmasked frames and fails an unmasked incoming
\* frame with the protocol error of close code 1002; the Conn of
\* UpgradeResponse writes only masked frames and fails a masked incoming frame.
C18_MaskingFollowsRole ==
    [][/\ wsConn'.madeBy = wsConn.madeBy
       /\ wsConn'.isServer = wsConn.isServer
       /\ wsConn.isServer = (wsConn.madeBy = "Upgrade")
       /\ \A i \in DOMAIN wire' : wire'[i].masked = (wsConn.madeBy = "UpgradeResponse")
       /\ (FrameTaken /\ readCall'.last.masked # (wsConn.madeBy = "Upgrade")) =>
              ProtocolFailure(1002)]_vars

C18_Witness ==
    /\ wsConn.madeBy = "UpgradeResponse"
    /\ Len(wire) = 2
    /\ wire[1].opcode = "text"
    /\ wire[1].masked
    /\ readCall.last.masked
    /\ readResult.err = ProtocolError(1002)

(***************************************************************************)
(* maskBytes over the chunks of a payload.                                 *)
(***************************************************************************)

\* C25: maskBytes returns (pos + len(b)) mod 4, so that after any number of
\* calls on consecutive chunks, each starting where the call before it
\* ended, the position returned is (first position + bytes masked) mod 4 and
\* the bytes gone over are those a single call on the whole payload from the
\* first position gives: byte i XORed with key[(pos + i) mod 4]; the bytes
\* not yet gone over are untouched.
C25_ChunkedMaskingEqualsWhole ==
    /\ mCalls > 0 => mRet = (mPos + mDone) % 4
    /\ mBuf = [i \in 1..Len(mOrig) |-> IF i <= mDone THEN MaskedOnce[i] ELSE mOrig[i]]

C25_Witness ==
    /\ mCalls = 3
    /\ mDone = Len(mOrig)
    /\ Len(mOrig) = MaxPayload
    /\ mKey = <<255, 170, 85, 16>>
    /\ mPos = 5
    /\ mRet = (5 + MaxPayload) % 4
    /\ mBuf = MaskedOnce
    /\ mBuf # mOrig

(***************************************************************************)
(* A request that carries a body.                                          *)
(***************************************************************************)

ProtocolLines(buf) ==
    {i \in DOMAIN buf : buf[i].k \in {"Sec-WebSocket-Protocol", "Sec-Websocket-Protocol"}}

PresetProtocolHeader ==
    \E i \in DOMAIN rspHeader : rspHeader[i].k = "Sec-Websocket-Protocol"

\* C23: the response Upgrade assembles has a Sec-WebSocket-Protocol line
\* exactly when the subprotocol stored on the Conn is not empty; there is
\* then one such line and no more, and its value is that subprotocol, whether
\* or not the application had set a Sec-Websocket-Protocol header on the
\* response, and whatever number of values that header had.  What reaches the
\* raw connection is that response or, when the write fails, a part of it.
C23_ProtocolLineOnceIffNegotiated ==
    /\ p # <<>> =>
           /\ c.made
           /\ c.subprotocol = subprotocol
           /\ Cardinality(ProtocolLines(p)) = (IF c.subprotocol # <<>> THEN 1 ELSE 0)
           /\ \A i \in ProtocolLines(p) : p[i].v = c.subprotocol
    /\ netConn.written = SubSeq(p, 1, Len(netConn.written))
    /\ (p # <<>> /\ netConn.written = p) =>
           Cardinality(ProtocolLines(netConn.written))
               = (IF c.subprotocol # <<>> THEN 1 ELSE 0)

\* The application set two values under Sec-Websocket-Protocol, the server's
\* own list chose another subprotocol, and the response went out.
C23_Witness ==
    /\ pc = "handler"
    /\ netConn.written = p
    /\ rspHeader = PresetProtocols \o PresetCookie
    /\ u.Subprotocols = List(<< <<"b">> >>)
    /\ c.subprotocol = <<"b">>
    /\ Cardinality(ProtocolLines(netConn.written)) = 1

(***************************************************************************)
(* The bytes of the 101 response, and the lines a reader finds in them.    *)
(***************************************************************************)

\* The bytes of one line as lines 228-260 append them.
RenderLine(l) ==
    IF l = EndOfHeaders THEN <<"\r", "\n">>
    ELSE IF l = StatusLine THEN <<l.k, " ">> \o l.v \o <<"\r", "\n">>
    ELSE <<l.k, ":", " ">> \o l.v \o <<"\r", "\n">>

RECURSIVE Render(_)
Render(buf) ==
    IF buf = <<>> THEN <<>> ELSE RenderLine(Head(buf)) \o Render(Tail(buf))

\* The line feeds among the bytes, and the places where an empty line ends.
LineFeeds(bytes) == {i \in DOMAIN bytes : bytes[i] = "\n"}
EmptyLines(bytes) ==
    {i \in LineFeeds(bytes) :
        i >= 4 /\ bytes[i - 1] = "\r" /\ bytes[i - 2] = "\n" /\ bytes[i - 3] = "\r"}

\* The lines of the response that the header copy appended: those after the
\* fixed lines, the subprotocol's and the extensions', and before the last.
CopiedLines ==
    IF p = <<>> THEN {}
    ELSE (4 + (IF c.subprotocol # <<>> THEN 1 ELSE 0) + (IF compress THEN 1 ELSE 0) + 1)
             .. (Len(p) - 1)

\* Every value the header copy appended is free of bytes of 31 and below.
CopiedValuesOneLine ==
    \A i \in CopiedLines : \A j \in DOMAIN p[i].v : ~IsControl(p[i].v[j])

\* C24: no response header value the application supplied puts a line break
\* into the 101 response: the values the header copy appended hold no byte of
\* 31 or below, the bytes of the response hold one line break for each line
\* Upgrade appended, and one empty line, the last.
C24_NoLineBreakInjected ==
    p # <<>> =>
        /\ CopiedValuesOneLine
        /\ Cardinality(LineFeeds(Render(p))) = Len(p)
        /\ EmptyLines(Render(p)) = {Len(Render(p))}

(***************************************************************************)
(* The chat Hub.  run receives on h.register, h.unregister and h.broadcast *)
(* in one goroutine; the range loop of a broadcast goes through the        *)
(* clients one at a time, while the clients go on receiving from their     *)
(* send channels.                                                          *)
(***************************************************************************)

\* close(ch): the channel closed; closing a closed channel panics.
closeChan(ch, by) ==
    [ch EXCEPT !.closed = TRUE, !.closes = @ + 1,
               !.closedBy = IF ch.closed THEN @ ELSE by]

\* The Hub and the channels after close(client.send) and delete(h.clients, client).
removeClient(h, chans, client, by) ==
    [hub |-> [h EXCEPT !.clients = @ \ {client},
                       !.panic = IF chans[client].closed
                                 THEN "close of closed channel" ELSE @],
     sendCh |-> [chans EXCEPT ![client] = closeChan(@, by)]]

\* h.AddClient(client)
AddClient(h, client) == [h EXCEPT !.clients = @ \cup {client}]

\* DelClient without the test of membership.
DelClient_Unchecked(h, chans, client) == removeClient(h, chans, client, "unregister")

\* h.DelClient(client): a client of the set is deleted and its channel closed.
DelClient(h, chans, client) ==
    IF client \in h.clients
    THEN removeClient(h, chans, client, "unregister")
    ELSE [hub |-> h, sendCh |-> chans]

\* case client.send <- message can proceed: the buffer has room.
sendReady(ch) == Len(ch.buf) < MaxSendBuffer

\* Lines 51-56: the select of the range loop, for one client.
broadcastTo(h, chans, client, message) ==
    IF chans[client].closed
    THEN [hub |-> [h EXCEPT !.panic = "send on closed channel"], sendCh |-> chans]
    ELSE IF sendReady(chans[client])
    THEN [hub |-> h, sendCh |-> [chans EXCEPT ![client].buf = Append(@, message)]]
    ELSE removeClient(h, chans, client, "broadcast")

HubInit ==
    /\ UpgradeAtRest
    /\ ClientNew([EnableCompression |-> FALSE])
    /\ MaskAtRest
    /\ SubprotocolsAtRest
    /\ ConnAtRest
    /\ EchoAtRest
    /\ HubAtRest
    /\ JsonAtRest

\* case client := <-h.register, for a client that registers once.
HubRegister ==
    /\ hub.panic = NoPanic
    /\ hub.pc = "select"
    /\ \E client \in Clients :
           /\ hubEvents.register[client] = 0
           /\ hub' = AddClient(hub, client)
           /\ hubEvents' = [hubEvents EXCEPT !.register[client] = @ + 1]
    /\ UNCHANGED sendCh
    /\ UNCHANGED besidesHub

\* case client := <-h.unregister, for a client that has registered.
HubUnregister ==
    /\ hub.panic = NoPanic
    /\ hub.pc = "select"
    /\ \E client \in Clients :
           /\ hubEvents.register[client] > 0
           /\ hubEvents.unregister[client] < MaxUnregisters
           /\ LET out == DelClient(hub, sendCh, client)
              IN  /\ hub' = out.hub
                  /\ sendCh' = out.sendCh
           /\ hubEvents' = [hubEvents EXCEPT !.unregister[client] = @ + 1]
    /\ UNCHANGED besidesHub

\* case message := <-h.broadcast: the range loop begins.
HubBroadcast ==
    /\ hub.panic = NoPanic
    /\ hub.pc = "select"
    /\ hubEvents.broadcast < MaxBroadcasts
    /\ hub' = IF hub.clients = {} THEN hub
              ELSE [hub EXCEPT !.pc = "broadcast", !.todo = hub.clients]
    /\ hubEvents' = [hubEvents EXCEPT !.broadcast = @ + 1]
    /\ UNCHANGED sendCh
    /\ UNCHANGED besidesHub

\* One turn of the range loop, for the client it comes to.
BroadcastTo(client) ==
    /\ hub.panic = NoPanic
    /\ hub.pc = "broadcast"
    /\ client \in hub.todo
    /\ LET out == broadcastTo(hub, sendCh, client, hubEvents.broadcast)
           todo == hub.todo \ {client}
       IN  /\ hub' = [out.hub EXCEPT !.todo = todo,
                                     !.pc = IF todo = {} THEN "select" ELSE "broadcast"]
           /\ sendCh' = out.sendCh
    /\ UNCHANGED hubEvents
    /\ UNCHANGED besidesHub

HubBroadcastStep == \E client \in Clients : BroadcastTo(client)

\* A client's writePump receives a message from its send channel.
ClientReceive ==
    /\ hub.panic = NoPanic
    /\ \E client \in Clients :
           /\ sendCh[client].buf # <<>>
           /\ sendCh' = [sendCh EXCEPT ![client].buf = Tail(@)]
    /\ UNCHANGED <<hub, hubEvents>>
    /\ UNCHANGED besidesHub

HubNext ==
    \/ HubRegister
    \/ HubUnregister
    \/ HubBroadcast
    \/ HubBroadcastStep
    \/ ClientReceive

HubSpec == HubInit /\ [][HubNext]_vars

\* No panic; a channel is closed at most once, and is closed exactly when
\* its client has registered and is no longer in the set.
HubSound ==
    /\ hub.panic = NoPanic
    /\ \A cl \in Clients :
           /\ sendCh[cl].closes <= 1
           /\ sendCh[cl].closed <=> sendCh[cl].closes = 1
           /\ sendCh[cl].closed <=> (hubEvents.register[cl] > 0 /\ cl \notin hub.clients)
           /\ Len(sendCh[cl].buf) <= MaxSendBuffer

\* C26: with clients that register once, whatever the register, unregister
\* and broadcast events: no send channel is closed more than once; a step
\* closes a client's channel exactly when it removes the client from the
\* set; an unregister of a client that is not in the set changes nothing; no
\* message is put on a closed channel and nothing panics; and during a
\* broadcast the loop can take its turn for every client it has yet to
\* visit, whatever that client's buffer holds.
C26_HubClosesSendOnceOnRemoval ==
    [][/\ HubSound'
       /\ \A cl \in Clients :
              /\ (sendCh'[cl].closes # sendCh[cl].closes)
                     <=> (cl \in hub.clients /\ cl \notin hub'.clients)
              /\ (hubEvents'.unregister[cl] # hubEvents.unregister[cl]
                      /\ cl \notin hub.clients)
                     => (hub' = hub /\ sendCh' = sendCh)
              /\ Len(sendCh'[cl].buf) > Len(sendCh[cl].buf)
                     => (~sendCh[cl].closed /\ ~sendCh'[cl].closed)
       /\ hub.pc = "broadcast" =>
              /\ hub.todo # {}
              /\ \A cl \in hub.todo : ENABLED BroadcastTo(cl)]_vars

\* One client was removed by a broadcast that found its buffer full and then
\* unregistered; the other was removed by its unregister, and unregistered again.
C26_Witness ==
    /\ hub.panic = NoPanic
    /\ hub.clients = {}
    /\ sendCh["c1"].closedBy = "broadcast"
    /\ Len(sendCh["c1"].buf) = MaxSendBuffer
    /\ hubEvents.unregister["c1"] = 1
    /\ sendCh["c2"].closedBy = "unregister"
    /\ hubEvents.unregister["c2"] = 2
    /\ sendCh["c1"].closes = 1
    /\ sendCh["c2"].closes = 1

(***************************************************************************)
(* ReadJSON: the reader of the next message, and one JSON value decoded    *)
(* from it.  The peer sends text messages, whole or in two fragments, and  *)
(* then a Close frame.                                                     *)
(***************************************************************************)

ErrUnexpectedEOF == [type |-> "error", message |-> "unexpected EOF"]
SyntaxError == [type |-> "SyntaxError", message |-> "invalid character"]

\* The bytes of the texts: "{" and "}".
LeftBrace == 123
RightBrace == 125

\* The texts the peer sends: "", "{", "}", "{}", "{{", "}{" and "{}}".
JSONTexts ==
    { <<>>, <<LeftBrace>>, <<RightBrace>>, <<LeftBrace, RightBrace>>,
      <<LeftBrace, LeftBrace>>, <<RightBrace, LeftBrace>>,
      <<LeftBrace, RightBrace, RightBrace>> }

\* A message: its text and the number of bytes in its first frame, 0 when
\* the message is sent in one frame.
JSONMessages ==
    {m \in [text : JSONTexts, cut : 0..2] : m.cut = 0 \/ m.cut < Len(m.text)}

\* The frames of one message as the peer sends them.
FramesOf(m, masked) ==
    IF m.cut = 0 THEN <<PeerFrame("text", TRUE, masked, m.text)>>
    ELSE <<PeerFrame("text", FALSE, masked, SubSeq(m.text, 1, m.cut)),
           PeerFrame("continuation", TRUE, masked,
                     SubSeq(m.text, m.cut + 1, Len(m.text)))>>

RECURSIVE StreamOf(_, _)
StreamOf(msgs, masked) ==
    IF msgs = <<>> THEN <<PeerFrame("close", TRUE, masked, ClosePayload(1000, <<>>))>>
    ELSE FramesOf(Head(msgs), masked) \o StreamOf(Tail(msgs), masked)

\* The decoder's scanner after one more byte: it looks for the beginning of a
\* value, then for the end of the object.
scanByte(st, b) ==
    CASE st = "value" /\ b = LeftBrace -> "object"
      [] st = "object" /\ b = RightBrace -> "done"
      [] st \in {"done", "error"} -> st
      [] OTHER -> "error"

\* The scanner over the bytes of a chunk; it stops at the end of a value and
\* at an error.
RECURSIVE scan(_, _)
scan(st, bytes) ==
    IF bytes = <<>> \/ st \in {"done", "error"} THEN st
    ELSE scan(scanByte(st, Head(bytes)), Tail(bytes))

\* What a step of the reader gives back.
Reading(cn, w, closed, i, err, chunk, final) ==
    [conn |-> cn, wire |-> w, closed |-> closed, i |-> i, err |-> err,
     chunk |-> chunk, final |-> final]

\* The reader stops at any data frame, a continuation of the message before
\* included.
readerStopsAt_AnyDataFrame(f, start) == f.opcode \in {"text", "binary", "continuation"}

\* Where the reader stops: at the frame that begins the next message when a
\* new reader is asked for, at the next continuation frame when the message
\* being read goes on.
readerStopsAt(f, start) ==
    IF start THEN f.opcode \in {"text", "binary"} ELSE f.opcode = "continuation"

\* Frames are taken from the stream, from the i-th on, until the reader
\* stops or the read fails; control frames are handled on the way and what is
\* left of a message not read to its end is passed over.
RECURSIVE nextChunk(_, _, _, _, _, _, _)
nextChunk(cn, w, closed, stream, i, key, start) ==
    IF cn.readErr # NoErr THEN Reading(cn, w, closed, i, cn.readErr, <<>>, TRUE)
    ELSE IF i > Len(stream) THEN Reading(cn, w, closed, i, NetErr("EOF"), <<>>, TRUE)
    ELSE LET f == stream[i]
             out == advanceFrame(cn, w, closed, f, key)
             after == [out.conn EXCEPT !.partial = <<>>]
         IN  IF out.result.err # NoErr
             THEN Reading(after, out.wire, out.streamClosed, i + 1, out.result.err,
                          <<>>, TRUE)
             ELSE IF readerStopsAt(f, start)
             THEN Reading(after, out.wire, out.streamClosed, i + 1, NoErr,
                          Unmasked(f), f.fin)
             ELSE nextChunk(after, out.wire, out.streamClosed, stream, i + 1, key, start)

\* Decode: the bytes of the message are scanned chunk by chunk until the
\* value ends, a byte is wrong, or the message ends too early.
RECURSIVE decodeFrom(_, _, _, _)
decodeFrom(rd, st, stream, key) ==
    IF rd.err # NoErr THEN rd
    ELSE LET sc == scan(st, rd.chunk)
         IN  IF sc = "done" THEN rd
             ELSE IF sc = "error" THEN [rd EXCEPT !.err = SyntaxError]
             ELSE IF rd.final THEN [rd EXCEPT !.err = ErrUnexpectedEOF]
             ELSE decodeFrom(nextChunk(rd.conn, rd.wire, rd.closed, stream, rd.i,
                                       key, FALSE),
                             sc, stream, key)

\* ReadJSON: the reader of the next message, then one value decoded from it.
readJSON(cn, w, closed, stream, i, key) ==
    decodeFrom(nextChunk(cn, w, closed, stream, i, key, TRUE), "value", stream, key)

JsonInit ==
    /\ UpgradeAtRest
    /\ ClientNew([EnableCompression |-> FALSE])
    /\ MaskAtRest
    /\ SubprotocolsAtRest
    /\ EchoAtRest
    /\ HubAtRest
    /\ \E cn \in {ServerConn, ClientConn} :
           /\ ConnMade(cn)
           /\ \E msgs \in SeqsUpTo(JSONMessages, MaxMessages) :
                  /\ jMessages = msgs
                  /\ jStream = StreamOf(msgs, cn.isServer)
    /\ jResults = <<>>

\* The application calls ReadJSON.
ReadJSON ==
    /\ wsConn.madeBy # "none"
    /\ jStream # <<>>
    /\ Len(jResults) < Len(jMessages) + 2
    /\ \E key \in WriteKeys :
           LET out == readJSON(wsConn, wire, streamClosed, jStream, framesRead + 1, key)
           IN  /\ wsConn' = out.conn
               /\ wire' = out.wire
               /\ streamClosed' = out.closed
               /\ framesRead' = out.i - 1
               /\ jResults' = Append(jResults, [err |-> out.err, framesRead |-> out.i - 1])
    /\ UNCHANGED <<readCall, readResult, writeCalls, writeResult, jStream, jMessages>>
    /\ UNCHANGED besidesJson

JsonNext == ReadJSON

JsonSpec == JsonInit /\ [][JsonNext]_vars

\* The frames the peer used for the messages before the n-th, and for the
\* messages up to the n-th.
RECURSIVE FramesUpTo(_)
FramesUpTo(n) ==
    IF n = 0 THEN 0
    ELSE FramesUpTo(n - 1) + (IF jMessages[n].cut = 0 THEN 1 ELSE 2)

\* The text begins with a whole JSON value; the text is the beginning of a
\* value and ends before the value does.
BeginsWithValue(t) == Len(t) >= 2 /\ t[1] = LeftBrace /\ t[2] = RightBrace
EndsTooEarly(t) == t = <<>> \/ t = <<LeftBrace>>

====
